---- MODULE Spec2Model ----
(***************************************************************************)
(* A model of the TraCI client protocol engine of traci-rs: the Storage    *)
(* byte buffer, the length-framed socket, the command lifecycle of         *)
(* TraciClient and the dispatch of pushed subscription results into the    *)
(* per-domain caches.  Bytes are integers 0..255, a String is the sequence *)
(* of its UTF-8 bytes and an f64 is its 8-byte big-endian bit pattern.     *)
(***************************************************************************)
EXTENDS Integers, Sequences, FiniteSets, TLC

(***************************************************************************)
(* Bounds of the model.                                                    *)
(***************************************************************************)
\* number of client operations in one run
MaxOps == 3
\* number of subscription responses the simulator puts in one step response
MaxSubs == 2

(***************************************************************************)
(* Protocol vocabulary (constants.rs).                                     *)
(***************************************************************************)
CMD_GETVERSION == 0
CMD_LOAD == 1
CMD_SIMSTEP == 2
CMD_SETORDER == 3
CMD_CLOSE == 127
CMD_GET_VEHICLE_VARIABLE == 164
CMD_SET_VEHICLE_VARIABLE == 196
CMD_SUBSCRIBE_VEHICLE_VARIABLE == 212
CMD_SUBSCRIBE_VEHICLE_CONTEXT == 132
CMD_ADD_SUBSCRIPTION_FILTER == 126
FILTER_TYPE_LANES == 1

RESPONSE_SUBSCRIBE_INDUCTIONLOOP_VARIABLE == 224
RESPONSE_SUBSCRIBE_MULTIENTRYEXIT_VARIABLE == 225
RESPONSE_SUBSCRIBE_TL_VARIABLE == 226
RESPONSE_SUBSCRIBE_LANE_VARIABLE == 227
RESPONSE_SUBSCRIBE_VEHICLE_VARIABLE == 228
RESPONSE_SUBSCRIBE_VEHICLETYPE_VARIABLE == 229
RESPONSE_SUBSCRIBE_ROUTE_VARIABLE == 230
RESPONSE_SUBSCRIBE_POI_VARIABLE == 231
RESPONSE_SUBSCRIBE_POLYGON_VARIABLE == 232
RESPONSE_SUBSCRIBE_JUNCTION_VARIABLE == 233
RESPONSE_SUBSCRIBE_EDGE_VARIABLE == 234
RESPONSE_SUBSCRIBE_SIM_VARIABLE == 235
RESPONSE_SUBSCRIBE_GUI_VARIABLE == 236
RESPONSE_SUBSCRIBE_LANEAREA_VARIABLE == 237
RESPONSE_SUBSCRIBE_PERSON_VARIABLE == 238
RESPONSE_SUBSCRIBE_REROUTER_VARIABLE == 104
RESPONSE_SUBSCRIBE_ROUTEPROBE_VARIABLE == 102

RESPONSE_SUBSCRIBE_INDUCTIONLOOP_CONTEXT == 144
RESPONSE_SUBSCRIBE_MULTIENTRYEXIT_CONTEXT == 145
RESPONSE_SUBSCRIBE_TL_CONTEXT == 146
RESPONSE_SUBSCRIBE_LANE_CONTEXT == 147
RESPONSE_SUBSCRIBE_VEHICLE_CONTEXT == 148
RESPONSE_SUBSCRIBE_VEHICLETYPE_CONTEXT == 149
RESPONSE_SUBSCRIBE_ROUTE_CONTEXT == 150
RESPONSE_SUBSCRIBE_POI_CONTEXT == 151
RESPONSE_SUBSCRIBE_POLYGON_CONTEXT == 152
RESPONSE_SUBSCRIBE_JUNCTION_CONTEXT == 153
RESPONSE_SUBSCRIBE_EDGE_CONTEXT == 154
RESPONSE_SUBSCRIBE_SIM_CONTEXT == 155
RESPONSE_SUBSCRIBE_GUI_CONTEXT == 156
RESPONSE_SUBSCRIBE_LANEAREA_CONTEXT == 157
RESPONSE_SUBSCRIBE_PERSON_CONTEXT == 158
RESPONSE_SUBSCRIBE_REROUTER_CONTEXT == 24
RESPONSE_SUBSCRIBE_ROUTEPROBE_CONTEXT == 22

POSITION_2D == 1
POSITION_3D == 3
TYPE_POLYGON == 6
TYPE_UBYTE == 7
TYPE_BYTE == 8
TYPE_COMPOUND == 15
TYPE_INTEGER == 9
TYPE_DOUBLE == 11
TYPE_STRING == 12
TYPE_STRINGLIST == 14
TYPE_DOUBLELIST == 16
TYPE_COLOR == 17

RTYPE_OK == 0
RTYPE_NOTIMPLEMENTED == 1
RTYPE_ERR == 255

VAR_SPEED == 64
VAR_POSITION == 66
VAR_ANGLE == 67
VAR_ACCELERATION == 114

\* socket.rs: length of the frame header
LENGTH_LEN == 4

(***************************************************************************)
(* Machine integers.  TLC's integers are 32-bit, so an i32 is computed     *)
(* from its signed top byte and a usize is never formed above i32::MAX.    *)
(***************************************************************************)
Pow8 == 256
Pow16 == 65536
Pow24 == 16777216

\* i32::from_be_bytes
I32FromBe(b) ==
    (IF b[1] >= 128 THEN b[1] - Pow8 ELSE b[1]) * Pow24
        + b[2] * Pow16 + b[3] * Pow8 + b[4]

\* i32::to_be_bytes (two's complement: \div rounds down, % is non-negative)
I32ToBe(n) ==
    << (n \div Pow24) % Pow8, (n \div Pow16) % Pow8, (n \div Pow8) % Pow8, n % Pow8 >>

\* `n as u8`
AsU8(n) == n % Pow8

\* u8::wrapping_add
wrapping_add(a, b) == (a + b) % Pow8

(***************************************************************************)
(* Storage (storage.rs): buf is the byte vector, pos the read cursor       *)
(* (0-based, so the byte under the cursor is buf[pos + 1]).                *)
(***************************************************************************)
Storage_new == [buf |-> << >>, pos |-> 0]

from_bytes(data) == [buf |-> data, pos |-> 0]

\* reset that clears the bytes and forgets the cursor
reset_kept(st) == [st EXCEPT !.buf = << >>]

reset(st) == [buf |-> << >>, pos |-> 0]

\* The result of a read: err is "Ok", "Protocol" or "Panic"; val the decoded
\* value (<< >> on failure); st the storage afterwards.
RdOk(v, st) == [err |-> "Ok", val |-> v, st |-> st]
RdErr(e, st) == [err |-> e, val |-> << >>, st |-> st]

\* check_read(n) for 0 <= n <= i32::MAX: pos + n > buf.len() fails
check_read(st, n) == n <= Len(st.buf) - st.pos

\* read_raw_bytes::<N>
read_raw_bytes(st, n) ==
    IF check_read(st, n)
    THEN RdOk(SubSeq(st.buf, st.pos + 1, st.pos + n), [st EXCEPT !.pos = @ + n])
    ELSE RdErr("Protocol", st)

read_u8(st) ==
    IF check_read(st, 1)
    THEN RdOk(st.buf[st.pos + 1], [st EXCEPT !.pos = @ + 1])
    ELSE RdErr("Protocol", st)

\* the `?` operator: a failed read r is returned, an Ok one is continued by K
Then(r, K(_)) == IF r.err # "Ok" THEN r ELSE K(r)

read_i32(st) ==
    Then(read_raw_bytes(st, 4), LAMBDA r : RdOk(I32FromBe(r.val), r.st))

\* the f64 is kept as its 8 bytes
read_f64(st) == read_raw_bytes(st, 8)

\* String::from_utf8 accepts exactly the well-formed UTF-8 byte sequences
Cont(b, i) == i <= Len(b) /\ b[i] >= 128 /\ b[i] <= 191
InRange(b, i, lo, hi) == i <= Len(b) /\ b[i] >= lo /\ b[i] <= hi

\* the length of the well-formed sequence b starts with, 0 if there is none
Utf8Len(b) ==
    IF b[1] < 128 THEN 1
    ELSE IF b[1] >= 194 /\ b[1] <= 223 THEN (IF Cont(b, 2) THEN 2 ELSE 0)
    ELSE IF b[1] = 224 THEN (IF InRange(b, 2, 160, 191) /\ Cont(b, 3) THEN 3 ELSE 0)
    ELSE IF b[1] = 237 THEN (IF InRange(b, 2, 128, 159) /\ Cont(b, 3) THEN 3 ELSE 0)
    ELSE IF b[1] >= 225 /\ b[1] <= 239 THEN (IF Cont(b, 2) /\ Cont(b, 3) THEN 3 ELSE 0)
    ELSE IF b[1] = 240
    THEN (IF InRange(b, 2, 144, 191) /\ Cont(b, 3) /\ Cont(b, 4) THEN 4 ELSE 0)
    ELSE IF b[1] >= 241 /\ b[1] <= 243
    THEN (IF Cont(b, 2) /\ Cont(b, 3) /\ Cont(b, 4) THEN 4 ELSE 0)
    ELSE IF b[1] = 244
    THEN (IF InRange(b, 2, 128, 143) /\ Cont(b, 3) /\ Cont(b, 4) THEN 4 ELSE 0)
    ELSE 0

RECURSIVE ValidUtf8(_)
ValidUtf8(b) ==
    \/ b = << >>
    \/ /\ Utf8Len(b) > 0
       /\ ValidUtf8(SubSeq(b, Utf8Len(b) + 1, Len(b)))

\* read_string after its length prefix: the cursor moves over the bytes
\* before they are checked to be UTF-8
read_string_bytes(st, bytes) ==
    IF ValidUtf8(bytes) THEN RdOk(bytes, st) ELSE RdErr("Protocol", st)

\* read_string from the length prefix len on.  `len as usize` of a negative
\* i32 is len + 2^64: then pos + len overflows usize exactly when
\* pos >= -len; a debug build panics on the addition, a release build wraps,
\* passes check_read and panics on the slice buf[pos..pos+len] whose end is
\* before its start.  Without the overflow the sum exceeds every buffer
\* length and check_read fails.
read_string_body(st, len) ==
    IF len < 0
    THEN (IF st.pos + len >= 0 THEN RdErr("Panic", st) ELSE RdErr("Protocol", st))
    ELSE IF ~check_read(st, len) THEN RdErr("Protocol", st)
    ELSE read_string_bytes([st EXCEPT !.pos = @ + len],
                           SubSeq(st.buf, st.pos + 1, st.pos + len))

read_string(st) == Then(read_i32(st), LAMBDA l : read_string_body(l.st, l.val))

\* the loop of read_string_list
RECURSIVE read_strings(_, _, _)
read_strings(st, count, acc) ==
    IF count <= 0 THEN RdOk(acc, st)
    ELSE Then(read_string(st),
              LAMBDA r : read_strings(r.st, count - 1, Append(acc, r.val)))

\* Vec::with_capacity(count as usize) panics ("capacity overflow") when the
\* requested bytes exceed isize::MAX, as they do for every negative count.
read_string_list(st) ==
    Then(read_i32(st),
         LAMBDA c : IF c.val < 0 THEN RdErr("Panic", c.st)
                    ELSE read_strings(c.st, c.val, << >>))

\* the loop of read_f64_list
RECURSIVE read_f64s(_, _, _)
read_f64s(st, count, acc) ==
    IF count <= 0 THEN RdOk(acc, st)
    ELSE Then(read_f64(st),
              LAMBDA r : read_f64s(r.st, count - 1, Append(acc, r.val)))

read_f64_list(st) ==
    Then(read_i32(st),
         LAMBDA c : IF c.val < 0 THEN RdErr("Panic", c.st)
                    ELSE read_f64s(c.st, c.val, << >>))

write_u8(st, value) == [st EXCEPT !.buf = Append(@, value)]

\* write_i32 in little-endian order
write_i32_le(st, value) ==
    [st EXCEPT !.buf = @ \o <<I32ToBe(value)[4], I32ToBe(value)[3],
                              I32ToBe(value)[2], I32ToBe(value)[1]>>]

write_i32(st, value) == [st EXCEPT !.buf = @ \o I32ToBe(value)]

\* value is the 8-byte pattern of the f64
write_f64(st, value) == [st EXCEPT !.buf = @ \o value]

write_string(st, s) == [st EXCEPT !.buf = @ \o I32ToBe(Len(s)) \o s]

\* write_packet that puts the bytes in front
write_packet_front(st, bytes) == [st EXCEPT !.buf = bytes \o @]

write_packet(st, bytes) == [st EXCEPT !.buf = @ \o bytes]

RECURSIVE write_strings(_, _)
write_strings(st, list) ==
    IF list = << >> THEN st
    ELSE write_strings(write_string(st, Head(list)), Tail(list))

write_string_list(st, list) == write_strings(write_i32(st, Len(list)), list)

(***************************************************************************)
(* Value model (types.rs).  A TraciValue is [t |-> variant, v |-> the list *)
(* of its components], each component a sequence of integers: the 8 bytes  *)
(* of an f64, the bytes of a String, <<n>> for an i32, <<r, g, b, a>>.     *)
(* A HashMap is the set of its <<key, value>> pairs, keys unique.          *)
(***************************************************************************)
TraciValue(t, v) == [t |-> t, v |-> v]

HashMap_new == {}

contains_key(m, k) == \E p \in m : p[1] = k

get(m, k) == (CHOOSE p \in m : p[1] = k)[2]

keys(m) == {p[1] : p \in m}

\* HashMap::insert replaces the value of a key already present
insert(m, k, v) == {p \in m : p[1] # k} \cup {<<k, v>>}

\* DomainId and the routing table built by TraciClient::connect
DomainId ==
    {"Edge", "Gui", "InductionLoop", "Junction", "Lane", "LaneArea",
     "MultiEntryExit", "Person", "Poi", "Polygon", "Rerouter", "Route",
     "RouteProbe", "Simulation", "TrafficLight", "Vehicle", "VehicleType"}

domains ==
    {<<RESPONSE_SUBSCRIBE_EDGE_VARIABLE, "Edge">>,
     <<RESPONSE_SUBSCRIBE_GUI_VARIABLE, "Gui">>,
     <<RESPONSE_SUBSCRIBE_INDUCTIONLOOP_VARIABLE, "InductionLoop">>,
     <<RESPONSE_SUBSCRIBE_JUNCTION_VARIABLE, "Junction">>,
     <<RESPONSE_SUBSCRIBE_LANE_VARIABLE, "Lane">>,
     <<RESPONSE_SUBSCRIBE_LANEAREA_VARIABLE, "LaneArea">>,
     <<RESPONSE_SUBSCRIBE_MULTIENTRYEXIT_VARIABLE, "MultiEntryExit">>,
     <<RESPONSE_SUBSCRIBE_PERSON_VARIABLE, "Person">>,
     <<RESPONSE_SUBSCRIBE_POI_VARIABLE, "Poi">>,
     <<RESPONSE_SUBSCRIBE_POLYGON_VARIABLE, "Polygon">>,
     <<RESPONSE_SUBSCRIBE_REROUTER_VARIABLE, "Rerouter">>,
     <<RESPONSE_SUBSCRIBE_ROUTE_VARIABLE, "Route">>,
     <<RESPONSE_SUBSCRIBE_ROUTEPROBE_VARIABLE, "RouteProbe">>,
     <<RESPONSE_SUBSCRIBE_SIM_VARIABLE, "Simulation">>,
     <<RESPONSE_SUBSCRIBE_TL_VARIABLE, "TrafficLight">>,
     <<RESPONSE_SUBSCRIBE_VEHICLE_VARIABLE, "Vehicle">>,
     <<RESPONSE_SUBSCRIBE_VEHICLETYPE_VARIABLE, "VehicleType">>}

(***************************************************************************)
(* Response validation and decoding (client.rs).                           *)
(***************************************************************************)
\* check_result_state_static: err is "Ok", "Protocol", "NotImplemented",
\* "SimulationError" or "Panic"; val the message string read (<< >> when the
\* parse stopped before it).
result_of_type(result_type, msg) ==
    [err |-> IF result_type = RTYPE_OK THEN "Ok"
             ELSE IF result_type = RTYPE_NOTIMPLEMENTED THEN "NotImplemented"
             ELSE IF result_type = RTYPE_ERR THEN "SimulationError"
             ELSE "Protocol",
     val |-> msg.val, st |-> msg.st]

\* check_result_state_static that never compares the echoed command id
check_result_state_any_id(in_msg, command, ignore_command_id) ==
    Then(read_u8(in_msg), LAMBDA cmd_len :
    Then(read_u8(cmd_len.st), LAMBDA cmd_id :
    Then(read_u8(cmd_id.st), LAMBDA result_type :
    Then(read_string(result_type.st), LAMBDA msg :
        result_of_type(result_type.val, msg)))))

check_result_state_static(in_msg, command, ignore_command_id) ==
    Then(read_u8(in_msg), LAMBDA cmd_len :
    Then(read_u8(cmd_len.st), LAMBDA cmd_id :
        IF ~ignore_command_id /\ cmd_id.val # command
        THEN RdErr("Protocol", cmd_id.st)
        ELSE Then(read_u8(cmd_id.st), LAMBDA result_type :
             Then(read_string(result_type.st), LAMBDA msg :
                 result_of_type(result_type.val, msg)))))

\* the length of a get-response header: one byte, or 0 and an i32
read_length(in_msg) ==
    Then(read_u8(in_msg), LAMBDA length :
        IF length.val = 0 THEN read_i32(length.st) ELSE length)

\* check_command_get_result_static that skips over the value-type tag
check_command_get_result_untyped(in_msg, command, expected_type, ignore_command_id) ==
    Then(read_length(in_msg), LAMBDA length :
    Then(read_u8(length.st), LAMBDA cmd_id :
        IF ~ignore_command_id /\ cmd_id.val # wrapping_add(command, 16)
        THEN RdErr("Protocol", cmd_id.st)
        ELSE IF expected_type = << >> THEN cmd_id
        ELSE Then(read_u8(cmd_id.st), LAMBDA var_id :
             Then(read_string(var_id.st), LAMBDA obj_id :
             Then(read_u8(obj_id.st), LAMBDA value_type :
                 RdOk(cmd_id.val, value_type.st))))))

\* check_command_get_result_static that leaves the cursor on the type tag
check_command_get_result_peeking(in_msg, command, expected_type, ignore_command_id) ==
    Then(read_length(in_msg), LAMBDA length :
    Then(read_u8(length.st), LAMBDA cmd_id :
        IF ~ignore_command_id /\ cmd_id.val # wrapping_add(command, 16)
        THEN RdErr("Protocol", cmd_id.st)
        ELSE IF expected_type = << >> THEN cmd_id
        ELSE Then(read_u8(cmd_id.st), LAMBDA var_id :
             Then(read_string(var_id.st), LAMBDA obj_id :
             Then(read_u8(obj_id.st), LAMBDA value_type :
                 IF value_type.val # expected_type[1]
                 THEN RdErr("Protocol", value_type.st)
                 ELSE RdOk(cmd_id.val, obj_id.st))))))

\* check_command_get_result_static: expected_type is << >> for None and
\* <<t>> for Some(t); val is the response command id.
check_command_get_result_static(in_msg, command, expected_type, ignore_command_id) ==
    Then(read_length(in_msg), LAMBDA length :
    Then(read_u8(length.st), LAMBDA cmd_id :
        IF ~ignore_command_id /\ cmd_id.val # wrapping_add(command, 16)
        THEN RdErr("Protocol", cmd_id.st)
        ELSE IF expected_type = << >> THEN cmd_id
        ELSE Then(read_u8(cmd_id.st), LAMBDA var_id :
             Then(read_string(var_id.st), LAMBDA obj_id :
             Then(read_u8(obj_id.st), LAMBDA value_type :
                 IF value_type.val # expected_type[1]
                 THEN RdErr("Protocol", value_type.st)
                 ELSE RdOk(cmd_id.val, value_type.st))))))

\* n successive read_f64 / read_u8, collected in acc
RECURSIVE read_f64_n(_, _, _)
read_f64_n(st, n, acc) ==
    IF n = 0 THEN RdOk(acc, st)
    ELSE Then(read_f64(st), LAMBDA r : read_f64_n(r.st, n - 1, Append(acc, r.val)))

\* read_u8_n that collects the bytes in reverse order
RECURSIVE read_u8_n_reversed(_, _, _)
read_u8_n_reversed(st, n, acc) ==
    IF n = 0 THEN RdOk(acc, st)
    ELSE Then(read_u8(st), LAMBDA r : read_u8_n_reversed(r.st, n - 1, <<r.val>> \o acc))

RECURSIVE read_u8_n(_, _, _)
read_u8_n(st, n, acc) ==
    IF n = 0 THEN RdOk(acc, st)
    ELSE Then(read_u8(st), LAMBDA r : read_u8_n(r.st, n - 1, Append(acc, r.val)))

\* read_typed_value that skips one byte of a value it does not recognise
read_typed_value_skipping(in_msg, type_id) ==
    IF type_id = TYPE_DOUBLE
    THEN Then(read_f64(in_msg), LAMBDA r : RdOk(TraciValue("Double", <<r.val>>), r.st))
    ELSE IF type_id = TYPE_INTEGER
    THEN Then(read_i32(in_msg), LAMBDA r : RdOk(TraciValue("Int", << <<r.val>> >>), r.st))
    ELSE IF type_id = TYPE_STRING
    THEN Then(read_string(in_msg), LAMBDA r : RdOk(TraciValue("String", <<r.val>>), r.st))
    ELSE IF type_id = TYPE_STRINGLIST
    THEN Then(read_string_list(in_msg),
              LAMBDA r : RdOk(TraciValue("StringList", r.val), r.st))
    ELSE IF type_id = TYPE_DOUBLELIST
    THEN Then(read_f64_list(in_msg),
              LAMBDA r : RdOk(TraciValue("DoubleList", r.val), r.st))
    ELSE IF type_id = TYPE_COLOR
    THEN Then(read_u8_n(in_msg, 4, << >>),
              LAMBDA r : RdOk(TraciValue("Color", <<r.val>>), r.st))
    ELSE IF type_id = POSITION_2D
    THEN Then(read_f64_n(in_msg, 2, << >>),
              LAMBDA r : RdOk(TraciValue("Pos2D", r.val), r.st))
    ELSE IF type_id = POSITION_3D
    THEN Then(read_f64_n(in_msg, 3, << >>),
              LAMBDA r : RdOk(TraciValue("Pos3D", r.val), r.st))
    ELSE IF type_id = TYPE_UBYTE
    THEN Then(read_u8(in_msg), LAMBDA r : RdOk(TraciValue("Int", << <<r.val>> >>), r.st))
    ELSE Then(read_u8(in_msg),
              LAMBDA r : RdOk(TraciValue("Unknown", << <<type_id>> >>), r.st))

\* read_typed_value (the type tag is already consumed)
read_typed_value(in_msg, type_id) ==
    IF type_id = TYPE_DOUBLE
    THEN Then(read_f64(in_msg), LAMBDA r : RdOk(TraciValue("Double", <<r.val>>), r.st))
    ELSE IF type_id = TYPE_INTEGER
    THEN Then(read_i32(in_msg), LAMBDA r : RdOk(TraciValue("Int", << <<r.val>> >>), r.st))
    ELSE IF type_id = TYPE_STRING
    THEN Then(read_string(in_msg), LAMBDA r : RdOk(TraciValue("String", <<r.val>>), r.st))
    ELSE IF type_id = TYPE_STRINGLIST
    THEN Then(read_string_list(in_msg),
              LAMBDA r : RdOk(TraciValue("StringList", r.val), r.st))
    ELSE IF type_id = TYPE_DOUBLELIST
    THEN Then(read_f64_list(in_msg),
              LAMBDA r : RdOk(TraciValue("DoubleList", r.val), r.st))
    ELSE IF type_id = TYPE_COLOR
    THEN Then(read_u8_n(in_msg, 4, << >>),
              LAMBDA r : RdOk(TraciValue("Color", <<r.val>>), r.st))
    ELSE IF type_id = POSITION_2D
    THEN Then(read_f64_n(in_msg, 2, << >>),
              LAMBDA r : RdOk(TraciValue("Pos2D", r.val), r.st))
    ELSE IF type_id = POSITION_3D
    THEN Then(read_f64_n(in_msg, 3, << >>),
              LAMBDA r : RdOk(TraciValue("Pos3D", r.val), r.st))
    ELSE IF type_id = TYPE_UBYTE
    THEN Then(read_u8(in_msg), LAMBDA r : RdOk(TraciValue("Int", << <<r.val>> >>), r.st))
    ELSE RdOk(TraciValue("Unknown", << <<type_id>> >>), in_msg)

\* read_variables_static without the test of the status byte
RECURSIVE read_variables_unchecked(_, _, _)
read_variables_unchecked(in_msg, var_count, results) ==
    IF var_count = 0 THEN RdOk(results, in_msg) ELSE
    Then(read_u8(in_msg), LAMBDA var_id :
    Then(read_u8(var_id.st), LAMBDA status :
    Then(read_u8(status.st), LAMBDA type_id :
    Then(read_typed_value(type_id.st, type_id.val), LAMBDA value :
        read_variables_unchecked(value.st, var_count - 1,
                                 insert(results, var_id.val, value.val))))))

\* read_variables_static: val is the TraciResults map
RECURSIVE read_variables_static(_, _, _)
read_variables_static(in_msg, var_count, results) ==
    IF var_count = 0 THEN RdOk(results, in_msg) ELSE
    Then(read_u8(in_msg), LAMBDA var_id :
    Then(read_u8(var_id.st), LAMBDA status :
    Then(read_u8(status.st), LAMBDA type_id :
        IF status.val # RTYPE_OK THEN RdErr("Protocol", type_id.st)
        ELSE Then(read_typed_value(type_id.st, type_id.val), LAMBDA value :
                 read_variables_static(value.st, var_count - 1,
                                       insert(results, var_id.val, value.val))))))

\* the state a parse of a step response leaves: the error, the cursor and caches
Parsed(err, st, sub, ctx) == [err |-> err, st |-> st, sub |-> sub, ctx |-> ctx]

\* `?` inside the subscription parsers: a failed read ends the parse with the
\* caches as they are
ThenP(r, sub, ctx, K(_)) == IF r.err # "Ok" THEN Parsed(r.err, r.st, sub, ctx) ELSE K(r)

\* a routing that drops an empty result map instead of storing it
route_nonempty(cmd_id, cache, id, results) ==
    IF contains_key(domains, cmd_id) /\ results # HashMap_new
    THEN [cache EXCEPT ![get(domains, cmd_id)] = insert(@, id, results)]
    ELSE cache

\* a routing that merges the result map into the entry already stored
route_merging(cmd_id, cache, id, results) ==
    IF contains_key(domains, cmd_id)
    THEN [cache EXCEPT ![get(domains, cmd_id)] =
              insert(@, id, IF contains_key(@, id) THEN get(@, id) \cup results
                            ELSE results)]
    ELSE cache

\* "Route to the correct scope cache": the caches after cache.insert(id, results)
route(cmd_id, cache, id, results) ==
    IF contains_key(domains, cmd_id)
    THEN [cache EXCEPT ![get(domains, cmd_id)] = insert(@, id, results)]
    ELSE cache

\* read_variable_subscription
read_variable_subscription(cmd_id, in_msg, sub, ctx) ==
    ThenP(read_string(in_msg), sub, ctx, LAMBDA object_id :
    ThenP(read_u8(object_id.st), sub, ctx, LAMBDA var_count :
    ThenP(read_variables_static(var_count.st, var_count.val, HashMap_new), sub, ctx,
          LAMBDA results :
              Parsed("Ok", results.st,
                     route(cmd_id, sub, object_id.val, results.val), ctx))))

\* the loop `for _ in 0..num_objects` of read_context_subscription
RECURSIVE read_context_objects(_, _, _, _)
read_context_objects(in_msg, var_count, num_objects, ctx_results) ==
    IF num_objects <= 0 THEN RdOk(ctx_results, in_msg) ELSE
    Then(read_string(in_msg), LAMBDA object_id :
    Then(read_variables_static(object_id.st, var_count, HashMap_new), LAMBDA results :
        read_context_objects(results.st, var_count, num_objects - 1,
                             insert(ctx_results, object_id.val, results.val))))

\* read_context_subscription
read_context_subscription(cmd_id, in_msg, sub, ctx) ==
    ThenP(read_string(in_msg), sub, ctx, LAMBDA context_id :
    ThenP(read_u8(context_id.st), sub, ctx, LAMBDA context_domain :
    ThenP(read_u8(context_domain.st), sub, ctx, LAMBDA var_count :
    ThenP(read_i32(var_count.st), sub, ctx, LAMBDA num_objects :
    ThenP(read_context_objects(num_objects.st, var_count.val, num_objects.val,
                               HashMap_new), sub, ctx,
          LAMBDA ctx_results :
              Parsed("Ok", ctx_results.st, sub,
                     route(cmd_id, ctx, context_id.val, ctx_results.val)))))))

\* simulation_step: the test that sends a response to the variable parser
is_variable_response(cmd_id) ==
    /\ RESPONSE_SUBSCRIBE_INDUCTIONLOOP_VARIABLE <= cmd_id
    /\ cmd_id <= RESPONSE_SUBSCRIBE_PERSON_VARIABLE

\* a dispatch that routes a context response by its id as it is
dispatch_one_unshifted(cmd_id, in_msg, sub, ctx) ==
    IF is_variable_response(cmd_id)
    THEN read_variable_subscription(cmd_id, in_msg, sub, ctx)
    ELSE read_context_subscription(cmd_id, in_msg, sub, ctx)

\* simulation_step: one pass of the loop after the response's command id
dispatch_one(cmd_id, in_msg, sub, ctx) ==
    IF is_variable_response(cmd_id)
    THEN read_variable_subscription(cmd_id, in_msg, sub, ctx)
    ELSE read_context_subscription(wrapping_add(cmd_id, 80), in_msg, sub, ctx)

\* `?` on a parse
ThenQ(p, K(_)) == IF p.err # "Ok" THEN p ELSE K(p)

\* simulation_step: the loop `for _ in 0..num_subs`
RECURSIVE dispatch_subscriptions(_, _, _, _)
dispatch_subscriptions(in_msg, num_subs, sub, ctx) ==
    IF num_subs <= 0 THEN Parsed("Ok", in_msg, sub, ctx) ELSE
    ThenP(check_command_get_result_static(in_msg, 0, << >>, TRUE), sub, ctx,
          LAMBDA cmd_id :
    ThenQ(dispatch_one(cmd_id.val, cmd_id.st, sub, ctx), LAMBDA one :
        dispatch_subscriptions(one.st, num_subs - 1, one.sub, one.ctx)))

\* simulation_step with the clearing left out
clear_stale_kept(sub) == sub

\* simulation_step: "Clear stale subscription results"
clear_stale(sub) == [d \in DomainId |-> HashMap_new]

\* simulation_step after the result status, with the caches cleared
step_subscriptions(in_msg, sub, ctx) ==
    ThenP(read_i32(in_msg), sub, ctx, LAMBDA num_subs :
        dispatch_subscriptions(num_subs.st, num_subs.val, sub, ctx))

\* a step_response that clears the caches before the status is validated
step_response_clearing_first(in_msg, sub, ctx) ==
    ThenP(check_result_state_static(in_msg, CMD_SIMSTEP, FALSE), clear_stale(sub), ctx,
          LAMBDA status : step_subscriptions(status.st, clear_stale(sub), ctx))

\* simulation_step from the received message on
step_response(in_msg, sub, ctx) ==
    ThenP(check_result_state_static(in_msg, CMD_SIMSTEP, FALSE), sub, ctx,
          LAMBDA status : step_subscriptions(status.st, clear_stale(sub), ctx))

\* create_command: add is << >> for None and <<bytes>> for Some
\* create_command that always writes the one-byte length
create_command_short(cmd_id, var_id, obj_id, add) ==
    LET extra == IF add = << >> THEN 0 ELSE Len(add[1])
        length == 1 + 1 + 1 + 4 + Len(obj_id) + extra
        o2 == write_string(write_u8(write_u8(write_u8(Storage_new, AsU8(length)),
                                             cmd_id), var_id), obj_id)
    IN  IF add = << >> THEN o2 ELSE write_packet(o2, add[1])

create_command(cmd_id, var_id, obj_id, add) ==
    LET extra == IF add = << >> THEN 0 ELSE Len(add[1])
        length == 1 + 1 + 1 + 4 + Len(obj_id) + extra
        o1 == IF length <= 255
              THEN write_u8(Storage_new, AsU8(length))
              ELSE write_i32(write_u8(Storage_new, 0), length + 4)
        o2 == write_string(write_u8(write_u8(o1, cmd_id), var_id), obj_id)
    IN  IF add = << >> THEN o2 ELSE write_packet(o2, add[1])

\* create_filter_command: the output buffer after the call
create_filter_command(cmd_id, var_id, add) ==
    LET extra == IF add = << >> THEN 0 ELSE Len(add[1])
        length == 1 + 1 + 1 + extra
        o1 == IF length <= 255
              THEN write_u8(Storage_new, AsU8(length))
              ELSE write_i32(write_u8(Storage_new, 0), length + 4)
        o2 == write_u8(write_u8(o1, cmd_id), var_id)
    IN  IF add = << >> THEN o2 ELSE write_packet(o2, add[1])

\* the message of set_order
set_order_msg(order) ==
    write_i32(write_u8(write_u8(Storage_new, 1 + 1 + 4), CMD_SETORDER), order)

\* send_simulation_step
send_simulation_step(time) ==
    write_f64(write_u8(write_u8(Storage_new, 1 + 1 + 8), CMD_SIMSTEP), time)

\* send_close
send_close == write_u8(write_u8(Storage_new, 1 + 1), CMD_CLOSE)

\* the message of get_version
get_version_msg == write_u8(write_u8(Storage_new, 2), CMD_GETVERSION)

RECURSIVE SumLen(_)
SumLen(list) == IF list = << >> THEN 0 ELSE Len(Head(list)) + SumLen(Tail(list))

\* a load message whose length leaves out the length field
load_msg_payload_only(args) ==
    LET total == 1 + 1 + 1 + 4 + SumLen(args) + 4 * Len(args)
    IN  write_string_list(
            write_u8(write_u8(write_i32(write_u8(Storage_new, 0), total),
                              CMD_LOAD), TYPE_STRINGLIST), args)

\* the message of load
load_msg(args) ==
    LET total == 1 + 1 + 1 + 4 + SumLen(args) + 4 * Len(args)
    IN  write_string_list(
            write_u8(write_u8(write_i32(write_u8(Storage_new, 0), total + 4),
                              CMD_LOAD), TYPE_STRINGLIST), args)

RECURSIVE write_u8s(_, _)
write_u8s(st, vars) ==
    IF vars = << >> THEN st ELSE write_u8s(write_u8(st, Head(vars)), Tail(vars))

\* the message of subscribe_object_variable
subscribe_object_variable_msg(dom_id, obj_id, begin_time, end_time, vars) ==
    LET var_no == Len(vars)
        m1 == write_i32(write_u8(Storage_new, 0),
                        5 + 1 + 8 + 8 + 4 + Len(obj_id) + 1 + var_no)
        m2 == write_f64(write_f64(write_u8(m1, dom_id), begin_time), end_time)
    IN  write_u8s(write_u8(write_string(m2, obj_id), AsU8(var_no)), vars)

\* the message of subscribe_object_context
subscribe_object_context_msg(dom_id, obj_id, begin_time, end_time, domain, range, vars) ==
    LET var_no == Len(vars)
        m1 == write_i32(write_u8(Storage_new, 0),
                        5 + 1 + 8 + 8 + 4 + Len(obj_id) + 1 + 8 + 1 + var_no)
        m2 == write_f64(write_f64(write_u8(m1, dom_id), begin_time), end_time)
        m3 == write_f64(write_u8(write_string(m2, obj_id), domain), range)
    IN  write_u8s(write_u8(m3, AsU8(var_no)), vars)

(***************************************************************************)
(* Transport (socket.rs).  The connection delivers the bytes the server    *)
(* wrote, in order, as one stream.                                         *)
(***************************************************************************)
\* send_exact: the bytes written to the stream
\* send_exact whose header counts the payload only
send_exact_bare(storage) == I32ToBe(Len(storage.buf)) \o storage.buf

send_exact(storage) == I32ToBe(LENGTH_LEN + Len(storage.buf)) \o storage.buf

\* receive_exact that takes a total below the header size for an empty frame
receive_exact_lax(stream) ==
    IF Len(stream) < LENGTH_LEN
    THEN [err |-> "Connection", st |-> Storage_new, rest |-> << >>]
    ELSE LET total_len == I32FromBe(SubSeq(stream, 1, LENGTH_LEN))
             rest == SubSeq(stream, LENGTH_LEN + 1, Len(stream))
         IN  IF total_len >= 0 /\ total_len < LENGTH_LEN
             THEN [err |-> "Ok", st |-> Storage_new, rest |-> rest]
             ELSE IF total_len < 0 \/ total_len - LENGTH_LEN > Len(rest)
             THEN [err |-> "Connection", st |-> Storage_new, rest |-> << >>]
             ELSE [err |-> "Ok",
                   st |-> from_bytes(SubSeq(rest, 1, total_len - LENGTH_LEN)),
                   rest |-> SubSeq(rest, total_len - LENGTH_LEN + 1, Len(rest))]

\* receive_exact on the unread bytes of the stream: err, the Storage
\* returned and the bytes left unread.  read_exact on a stream that has ended
\* short of the bytes asked for is a Connection error.
receive_exact(stream) ==
    IF Len(stream) < LENGTH_LEN
    THEN [err |-> "Connection", st |-> Storage_new, rest |-> << >>]
    ELSE LET total_len == I32FromBe(SubSeq(stream, 1, LENGTH_LEN))
             rest == SubSeq(stream, LENGTH_LEN + 1, Len(stream))
         IN  IF total_len >= 0 /\ total_len < LENGTH_LEN
             THEN [err |-> "Protocol", st |-> Storage_new, rest |-> rest]
             ELSE IF total_len < 0 \/ total_len - LENGTH_LEN > Len(rest)
             THEN [err |-> "Connection", st |-> Storage_new, rest |-> << >>]
             ELSE [err |-> "Ok",
                   st |-> from_bytes(SubSeq(rest, 1, total_len - LENGTH_LEN)),
                   rest |-> SubSeq(rest, total_len - LENGTH_LEN + 1, Len(rest))]

(***************************************************************************)
(* The simulator at the other end of the connection.  It answers every     *)
(* request frame with exactly one response frame, in order, in the wire    *)
(* format of the protocol.                                                 *)
(***************************************************************************)
Str(s) == I32ToBe(Len(s)) \o s

\* object ids "v0", "v1" and "k0"
V0 == <<118, 48>>
V1 == <<118, 49>>
K0 == <<107, 48>>

\* f64 bit patterns: 27.5, 13.0, 100.0, 200.0, 0.0, 3600.0
F27_5 == <<64, 59, 128, 0, 0, 0, 0, 0>>
F13 == <<64, 42, 0, 0, 0, 0, 0, 0>>
F100 == <<64, 89, 0, 0, 0, 0, 0, 0>>
F200 == <<64, 105, 0, 0, 0, 0, 0, 0>>
F0 == <<0, 0, 0, 0, 0, 0, 0, 0>>
F3600 == <<64, 172, 32, 0, 0, 0, 0, 0>>

Double(x) == TraciValue("Double", <<x>>)
Pos2D(x, y) == TraciValue("Pos2D", <<x, y>>)
String(x) == TraciValue("String", <<x>>)

\* a typed value on the wire: its type tag, then its payload
EncValue(val) ==
    IF val.t = "Double" THEN <<TYPE_DOUBLE>> \o val.v[1]
    ELSE IF val.t = "Pos2D" THEN <<POSITION_2D>> \o val.v[1] \o val.v[2]
    ELSE IF val.t = "String" THEN <<TYPE_STRING>> \o Str(val.v[1])
    ELSE <<TYPE_INTEGER>> \o I32ToBe(val.v[1][1])

\* the tuples <<variable id, status, value>> of one object
RECURSIVE EncVars(_)
EncVars(vars) ==
    IF vars = << >> THEN << >>
    ELSE <<Head(vars)[1], Head(vars)[2]>> \o EncValue(Head(vars)[3]) \o EncVars(Tail(vars))

RECURSIVE EncObjects(_)
EncObjects(objs) ==
    IF objs = << >> THEN << >>
    ELSE Str(Head(objs)[1]) \o EncVars(Head(objs)[2]) \o EncObjects(Tail(objs))

\* a command with its length field: one byte, or 0 and four bytes
SrvCmd(body) ==
    IF Len(body) + 1 <= 255 THEN <<Len(body) + 1>> \o body
    ELSE <<0>> \o I32ToBe(Len(body) + 5) \o body

\* A subscription response the simulator pushes.  A variable response is for
\* object obj and carries vars; a context response is for anchor obj and
\* carries, for each object found, its id and its vars (nvars each).
VarItem(id, obj, vars) ==
    [kind |-> "var", id |-> id, obj |-> obj, dom |-> 0, nvars |-> Len(vars),
     vars |-> vars, objs |-> << >>]

CtxItem(id, obj, dom, nvars, objs) ==
    [kind |-> "ctx", id |-> id, obj |-> obj, dom |-> dom, nvars |-> nvars,
     vars |-> << >>, objs |-> objs]

EncItem(item) ==
    IF item.kind = "var"
    THEN SrvCmd(<<item.id>> \o Str(item.obj) \o <<item.nvars>> \o EncVars(item.vars))
    ELSE SrvCmd(<<item.id>> \o Str(item.obj) \o <<item.dom, item.nvars>>
                \o I32ToBe(Len(item.objs)) \o EncObjects(item.objs))

RECURSIVE EncItems(_)
EncItems(items) ==
    IF items = << >> THEN << >> ELSE EncItem(Head(items)) \o EncItems(Tail(items))

\* the result-status part of every response
SrvStatus(cmd, rt, msg) == <<7 + Len(msg), cmd, rt>> \o Str(msg)

\* the value the simulation holds for a variable in world w
WorldValue(var, w) ==
    IF var = VAR_POSITION THEN (IF w = 1 THEN Pos2D(F100, F200) ELSE Pos2D(F200, F100))
    ELSE IF var = VAR_SPEED THEN (IF w = 1 THEN Double(F27_5) ELSE Double(F13))
    ELSE IF var = VAR_ACCELERATION THEN (IF w = 1 THEN Double(F0) ELSE Double(F27_5))
    ELSE (IF w = 1 THEN Double(F100) ELSE Double(F0))

Worlds == {1, 2}

\* the variable response for one standing subscription <<obj, vars>>
RECURSIVE WorldVars(_, _)
WorldVars(vars, w) ==
    IF vars = << >> THEN << >>
    ELSE <<<<Head(vars), RTYPE_OK, WorldValue(Head(vars), w)>>>> \o WorldVars(Tail(vars), w)

RECURSIVE StandingItems(_, _)
StandingItems(subs, w) ==
    IF subs = << >> THEN << >>
    ELSE <<VarItem(RESPONSE_SUBSCRIBE_VEHICLE_VARIABLE, Head(subs)[1],
                   WorldVars(Head(subs)[2], w))>> \o StandingItems(Tail(subs), w)

\* the command id of a request
ReqCmd(req) == IF req[1] = 0 THEN req[6] ELSE req[2]

\* the fields of a subscribe request: <<object id, variable ids>>
ReqVars(obj_id, n) == <<obj_id, SubSeq(n.st.buf, n.st.pos + 1, n.st.pos + n.val)>>
ReqFields(obj) == ReqVars(obj.val, read_u8(obj.st))
ReqSubscription(req) == ReqFields(read_string(from_bytes(SubSeq(req, 23, Len(req)))))

\* the object id of a subscribe request
ReqObject(req) == read_string(from_bytes(SubSeq(req, 23, Len(req)))).val

\* the fields of a get request: <<variable id, object id>>
ReqVariable(req) == <<req[3], read_string(from_bytes(SubSeq(req, 4, Len(req)))).val>>

\* What the simulator knows of a response it wrote: the command answered,
\* the result type and the subscription responses pushed.
Info(cmd, rt, push) == [cmd |-> cmd, rt |-> rt, push |-> push]
NoInfo == Info(0 - 1, 0, << >>)

\* a response: the result status, then body; push is what body carries and
\* subs the standing subscriptions afterwards
Reply(cmd, rt, body, push, subs) ==
    [bytes |-> SrvStatus(cmd, rt, << >>) \o body, info |-> Info(cmd, rt, push),
     subs |-> subs]

StepReply(cmd, push, subs) ==
    Reply(cmd, RTYPE_OK, I32ToBe(Len(push)) \o EncItems(push), push, subs)

GetReply(cmd, q, w, subs) ==
    Reply(cmd, RTYPE_OK,
          SrvCmd(<<wrapping_add(cmd, 16), q[1]>> \o Str(q[2])
                 \o EncValue(WorldValue(q[1], w))), << >>, subs)

SubscribeReply(cmd, q, w, subs) ==
    Reply(cmd, RTYPE_OK,
          EncItem(VarItem(wrapping_add(cmd, 16), q[1], WorldVars(q[2], w))),
          << >>, Append(subs, q))

\* The response to a request req of command cmd (a payload, without the frame
\* header) when the simulator answers with result type c.rt, holds the world
\* c.w and has the subscription responses c.push due besides those of its
\* standing subscriptions subs.
RespondTo(cmd, req, c, subs) ==
    IF c.rt # RTYPE_OK THEN Reply(cmd, c.rt, << >>, << >>, subs)
    ELSE IF cmd = CMD_SIMSTEP
    THEN StepReply(cmd, StandingItems(subs, c.w) \o c.push, subs)
    ELSE IF cmd = CMD_GETVERSION
    THEN Reply(cmd, RTYPE_OK, SrvCmd(<<CMD_GETVERSION>> \o I32ToBe(21) \o Str(V1)),
               << >>, subs)
    ELSE IF cmd = CMD_GET_VEHICLE_VARIABLE
    THEN GetReply(cmd, ReqVariable(req), c.w, subs)
    ELSE IF cmd = CMD_SUBSCRIBE_VEHICLE_VARIABLE
    THEN SubscribeReply(cmd, ReqSubscription(req), c.w, subs)
    ELSE IF cmd = CMD_SUBSCRIBE_VEHICLE_CONTEXT
    THEN Reply(cmd, RTYPE_OK,
               EncItem(CtxItem(wrapping_add(cmd, 16), ReqObject(req),
                               CMD_GET_VEHICLE_VARIABLE, 1, << >>)), << >>, subs)
    ELSE Reply(cmd, RTYPE_OK, << >>, << >>, subs)

Respond(req, c, subs) == RespondTo(ReqCmd(req), req, c, subs)

\* the server reads one request frame off the stream the client wrote
FramePayload(frame) == SubSeq(frame, LENGTH_LEN + 1, Len(frame))

SrvFrame(bytes) == I32ToBe(LENGTH_LEN + Len(bytes)) \o bytes

\* subscription responses the simulator may have due in a run
Speed(x) == <<VAR_SPEED, RTYPE_OK, Double(x)>>
VehA ==
    VarItem(RESPONSE_SUBSCRIBE_VEHICLE_VARIABLE, V0,
            <<Speed(F27_5), <<VAR_POSITION, RTYPE_OK, Pos2D(F100, F200)>>>>)
VehB == VarItem(RESPONSE_SUBSCRIBE_VEHICLE_VARIABLE, V0, <<Speed(F13)>>)
LaneC == VarItem(RESPONSE_SUBSCRIBE_LANE_VARIABLE, V1, <<Speed(F27_5)>>)
RerouterD == VarItem(RESPONSE_SUBSCRIBE_REROUTER_VARIABLE, V1, <<Speed(F27_5)>>)
VehBad ==
    VarItem(RESPONSE_SUBSCRIBE_VEHICLE_VARIABLE, V1,
            <<<<VAR_SPEED, RTYPE_ERR, String(V0)>>>>)
Ctx0 ==
    CtxItem(RESPONSE_SUBSCRIBE_VEHICLE_CONTEXT, V0, CMD_GET_VEHICLE_VARIABLE, 1, << >>)
Ctx2 ==
    CtxItem(RESPONSE_SUBSCRIBE_VEHICLE_CONTEXT, V0, CMD_GET_VEHICLE_VARIABLE, 1,
            <<<<V1, <<Speed(F27_5)>>>>, <<K0, <<Speed(F13)>>>>>>)
CtxLane ==
    CtxItem(RESPONSE_SUBSCRIBE_LANE_CONTEXT, V1, CMD_GET_VEHICLE_VARIABLE, 2,
            <<<<V0, <<Speed(F13), <<VAR_ANGLE, RTYPE_OK, Double(F100)>>>>>>>>)
CtxBad ==
    CtxItem(RESPONSE_SUBSCRIBE_VEHICLE_CONTEXT, V1, CMD_GET_VEHICLE_VARIABLE, 1,
            <<<<V0, <<<<VAR_SPEED, RTYPE_ERR, String(V0)>>>>>>>>)

DueFamilies ==
    { {VehA, VehB, LaneC}, {Ctx0, Ctx2, CtxLane}, {VehBad, CtxBad, VehA},
      {RerouterD, VehA, Ctx2} }

\* the payloads of one step response: up to MaxSubs due responses, in any order
Payloads(d) ==
    {p \in UNION {[1..n -> d] : n \in 0..MaxSubs} :
        \A i, j \in DOMAIN p : p[i] = p[j] => i = j}

(***************************************************************************)
(* The state machine.                                                      *)
(***************************************************************************)
VARIABLES
    socket,                       \* TraciClient.socket is Some
    output,                       \* TraciClient.output
    input,                        \* TraciClient.input
    subscription_results,         \* per DomainId, the scope's subscription_results
    context_subscription_results, \* per DomainId, context_subscription_results
    stream,                       \* bytes the server wrote, not yet read
    unread,                       \* what each unread response frame holds
    standing,                     \* the server's standing variable subscriptions
    due,                          \* the subscription responses the server has due
    last,                         \* the last operation and what it returned
    prev,                         \* the operation before it
    nops                          \* number of operations called

vars ==
    <<socket, output, input, subscription_results, context_subscription_results,
      stream, unread, standing, due, last, prev, nops>>

\* the wire side of an operation that sent nothing
NoWire ==
    [err |-> "Ok", in_msg |-> Storage_new, stream |-> stream, unread |-> unread,
     got |-> NoInfo, standing |-> standing, mine |-> NoInfo, sent |-> << >>,
     pend |-> 0]

\* last: op the operation; res "Ok" or the TraciError variant ("Panic" when
\* the call panicked); ret what Ok carried; sent the request frames it wrote;
\* pend the response frames unread when it wrote its request; got what the
\* response frame it read holds; mine what the response to its own request
\* holds; pg what process_get / process_set returned ("true", "false", "")
\* and pgin the input buffer it left.
Result(op, res, ret, x, pg, pgin) ==
    [op |-> op, res |-> res, ret |-> ret, sent |-> x.sent, pend |-> x.pend,
     got |-> x.got, mine |-> x.mine, pg |-> pg, pgin |-> pgin]

InitCommon ==
    /\ socket = TRUE
    /\ output = Storage_new
    /\ input = Storage_new
    /\ subscription_results = [d \in DomainId |-> HashMap_new]
    /\ context_subscription_results = [d \in DomainId |-> HashMap_new]
    /\ stream = << >>
    /\ unread = << >>
    /\ standing = << >>
    /\ last = [op |-> "connect", res |-> "Ok", ret |-> << >>, sent |-> << >>,
               pend |-> 0, got |-> NoInfo, mine |-> NoInfo, pg |-> "",
               pgin |-> Storage_new]
    /\ prev = last
    /\ nops = 0

Init == InitCommon /\ due \in DueFamilies

\* a panic unwinds the caller; nothing is called after it
Running == nops < MaxOps /\ last.res # "Panic"

\* the wire side of an operation, and what it returned
Returned(op, x, res, ret, pg, pgin) ==
    /\ stream' = x.stream
    /\ unread' = x.unread
    /\ standing' = x.standing
    /\ last' = Result(op, res, ret, x, pg, pgin)
    /\ prev' = last
    /\ nops' = nops + 1
    /\ due' = due

\* an absent socket that makes the operation return Ok having done nothing
NotConnected_silent(op) ==
    /\ Returned(op, NoWire, "Ok", << >>, "", Storage_new)
    /\ UNCHANGED <<socket, output, input, subscription_results,
                   context_subscription_results>>

\* an absent socket that the operation replaces by a new connection
NotConnected_reconnecting(op) ==
    /\ Returned(op, NoWire, "Connection", << >>, "", Storage_new)
    /\ socket' = TRUE
    /\ UNCHANGED <<output, input, subscription_results, context_subscription_results>>

\* socket_mut()? on an absent socket
NotConnected(op) ==
    /\ Returned(op, NoWire, "Connection", << >>, "", Storage_new)
    /\ UNCHANGED <<socket, output, input, subscription_results,
                   context_subscription_results>>

\* the frame read (or not) off the stream after the server's answer r
Delivered(frame, r, rc, u2) ==
    [err |-> rc.err, in_msg |-> rc.st, stream |-> rc.rest,
     unread |-> IF rc.err = "Ok" THEN Tail(u2) ELSE u2,
     got |-> IF rc.err = "Ok" THEN Head(u2) ELSE NoInfo,
     standing |-> r.subs, mine |-> r.info, sent |-> <<frame>>,
     pend |-> Len(unread)]

Received(frame, r) ==
    Delivered(frame, r, receive_exact(stream \o SrvFrame(r.bytes)),
              Append(unread, r.info))

Served(frame, c) == Received(frame, Respond(FramePayload(frame), c, standing))

\* send_exact(msg), the server's answer under choice c, then receive_exact
Exchange(msg, c) == Served(send_exact(msg), c)

Left(frame, r) ==
    [err |-> "Ok", in_msg |-> Storage_new, stream |-> stream \o SrvFrame(r.bytes),
     unread |-> Append(unread, r.info), got |-> NoInfo, standing |-> r.subs,
     mine |-> r.info, sent |-> <<frame>>, pend |-> Len(unread)]

Queued(frame, c) == Left(frame, Respond(FramePayload(frame), c, standing))

\* send_exact(msg) and the server's answer, which stays unread
SendOnly(msg, c) == Queued(send_exact(msg), c)

Answer(rt, w, push) == [rt |-> rt, w |-> w, push |-> push]
Answers == {Answer(rt, 1, << >>) : rt \in {RTYPE_OK, RTYPE_ERR}}
OkAnswers == {Answer(RTYPE_OK, 1, << >>)}
WorldAnswers ==
    {Answer(RTYPE_OK, w, << >>) : w \in Worlds} \cup {Answer(RTYPE_ERR, 1, << >>)}
StepAnswers ==
    {Answer(RTYPE_OK, w, p) : w \in Worlds, p \in Payloads(due)}
        \cup {Answer(RTYPE_ERR, 1, << >>)}

\* an Outcome that goes on to the parse after a failed receive
Outcome_suppressing(x, r) == r.err

\* `?` on receive_exact, then on the parse r of the message received
Outcome(x, r) == IF x.err # "Ok" THEN x.err ELSE r.err

\* an operation that changes nothing of the client but what it returns
Finish(op, x, res, ret) ==
    /\ Returned(op, x, res, ret, "", Storage_new)
    /\ UNCHANGED <<socket, output, input, subscription_results,
                   context_subscription_results>>

\* receive_exact and check_result_state_static of set_order, load
Acknowledged(op, x, command) ==
    Finish(op, x, Outcome(x, check_result_state_static(x.in_msg, command, FALSE)), << >>)

\* set_order
set_order(order) ==
    /\ Running
    /\ IF ~socket THEN NotConnected("set_order")
       ELSE \E c \in OkAnswers :
                Acknowledged("set_order", Exchange(set_order_msg(order), c), CMD_SETORDER)

\* load
load(args) ==
    /\ Running
    /\ IF ~socket THEN NotConnected("load")
       ELSE \E c \in OkAnswers :
                Acknowledged("load", Exchange(load_msg(args), c), CMD_LOAD)

\* get_version after the result status: the value is <<version, sumo_version>>
get_version_value(in_msg) ==
    Then(check_result_state_static(in_msg, CMD_GETVERSION, FALSE), LAMBDA status :
    Then(read_u8(status.st), LAMBDA len :
    Then(read_u8(len.st), LAMBDA echo :
    Then(read_i32(echo.st), LAMBDA version :
    Then(read_string(version.st), LAMBDA sumo_version :
        RdOk(<< <<version.val>>, sumo_version.val >>, sumo_version.st))))))

get_version_returned(x, res, v) ==
    Finish("get_version", x, res, IF res = "Ok" THEN v.val ELSE << >>)

get_version_parsed(x, v) == get_version_returned(x, Outcome(x, v), v)

get_version_received(x) == get_version_parsed(x, get_version_value(x.in_msg))

\* get_version
get_version ==
    /\ Running
    /\ IF ~socket THEN NotConnected("get_version")
       ELSE \E c \in OkAnswers : get_version_received(Exchange(get_version_msg, c))

\* simulation_step from the message received: p is the parse
simulation_step_parsed(x, p) ==
    /\ Returned("simulation_step", x, Outcome(x, p), << >>, "", Storage_new)
    /\ subscription_results' = IF x.err # "Ok" THEN subscription_results ELSE p.sub
    /\ context_subscription_results' =
           IF x.err # "Ok" THEN context_subscription_results ELSE p.ctx
    /\ UNCHANGED <<socket, output, input>>

simulation_step_received(x) ==
    simulation_step_parsed(x, step_response(x.in_msg, subscription_results,
                                            context_subscription_results))

\* simulation_step
simulation_step(time) ==
    /\ Running
    /\ IF ~socket THEN NotConnected("simulation_step")
       ELSE \E c \in StepAnswers :
                simulation_step_received(Exchange(send_simulation_step(time), c))

\* a close that drops the socket whatever the outcome
close_checked_dropping(x, res) ==
    /\ Returned("close", x, res, << >>, "", Storage_new)
    /\ socket' = FALSE
    /\ UNCHANGED <<output, input, subscription_results, context_subscription_results>>

\* close from the message received: close_socket after a validated response
close_checked(x, res) ==
    /\ Returned("close", x, res, << >>, "", Storage_new)
    /\ socket' = (res # "Ok")
    /\ UNCHANGED <<output, input, subscription_results, context_subscription_results>>

close_received(x) ==
    close_checked(x, Outcome(x, check_result_state_static(x.in_msg, CMD_CLOSE, FALSE)))

\* close
close ==
    /\ Running
    /\ IF ~socket THEN NotConnected("close")
       ELSE \E c \in Answers : close_received(Exchange(send_close, c))

\* subscribe_object_variable: the request is sent and the call returns
subscribe_object_variable(op, dom_id, obj_id, begin_time, end_time, vars_) ==
    /\ Running
    /\ IF ~socket THEN NotConnected(op)
       ELSE \E c \in OkAnswers :
                Finish(op, SendOnly(subscribe_object_variable_msg(
                                        dom_id, obj_id, begin_time, end_time, vars_), c),
                       "Ok", << >>)

\* VehicleScope::subscribe_kinematics
subscribe_kinematics(vehicle_id, begin, end) ==
    subscribe_object_variable("subscribe_kinematics", CMD_SUBSCRIBE_VEHICLE_VARIABLE,
        vehicle_id, begin, end,
        <<VAR_POSITION, VAR_SPEED, VAR_ACCELERATION, VAR_ANGLE>>)

\* subscribe_object_context, as called by VehicleScope::subscribe_context
subscribe_object_context(dom_id, obj_id, begin_time, end_time, domain, range, vars_) ==
    /\ Running
    /\ IF ~socket THEN NotConnected("subscribe_context")
       ELSE \E c \in OkAnswers :
                Finish("subscribe_context",
                       SendOnly(subscribe_object_context_msg(
                                    dom_id, obj_id, begin_time, end_time, domain,
                                    range, vars_), c),
                       "Ok", << >>)

\* what process_get / process_set leave: err, ret ("true" / "false"), the
\* input buffer afterwards and the wire side
Process(err, ret, inp, x) == [err |-> err, ret |-> ret, input |-> inp, x |-> x]

\* process_get after check_result_state_static
process_get_header(x, hdr) ==
    Process(hdr.err, IF hdr.err = "Ok" THEN "true" ELSE "", hdr.st, x)

process_get_status(x, status, command, expected_type) ==
    IF status.err # "Ok" THEN Process(status.err, "", status.st, x)
    ELSE process_get_header(x, check_command_get_result_static(
                                   status.st, command, expected_type, FALSE))

\* process_get after send_exact and receive_exact
process_get_received(x, command, expected_type) ==
    IF x.err # "Ok" THEN Process(x.err, "", input, x)
    ELSE process_get_status(x, check_result_state_static(x.in_msg, command, FALSE),
                            command, expected_type)

\* process_get on the output buffer out, against answer c
process_get(out, command, expected_type, c) ==
    IF socket
    THEN process_get_received(Exchange(from_bytes(out.buf), c), command, expected_type)
    ELSE Process("Ok", "false", input, NoWire)

process_set_status(x, status) ==
    Process(status.err, IF status.err = "Ok" THEN "true" ELSE "", status.st, x)

\* process_set after send_exact and receive_exact
process_set_received(x, command) ==
    IF x.err # "Ok" THEN Process(x.err, "", input, x)
    ELSE process_set_status(x, check_result_state_static(x.in_msg, command, FALSE))

\* process_set without the test for a socket
process_set_sending(out, command, c) ==
    process_set_received(Exchange(from_bytes(out.buf), c), command)

\* process_set
process_set(out, command, c) ==
    IF socket
    THEN process_set_received(Exchange(from_bytes(out.buf), c), command)
    ELSE Process("Ok", "false", input, NoWire)

\* the wire side and the result of a getter or setter built on process_get /
\* process_set: g is what process_* returned, res and ret the call's result
Processed(op, g, res, ret) ==
    /\ Returned(op, g.x, res, ret, g.ret, g.input)
    /\ UNCHANGED <<socket, subscription_results, context_subscription_results>>

\* scope_get_double after process_get(..)?: read_double_from_input
get_speed_read(out, g, d) ==
    /\ output' = out
    /\ input' = IF g.err = "Ok" THEN d.st ELSE g.input
    /\ Processed("get_speed", g,
                 IF g.err = "Ok" THEN d.err ELSE g.err,
                 IF g.err = "Ok" /\ d.err = "Ok" THEN <<d.val>> ELSE << >>)

get_speed_processed(out, g) == get_speed_read(out, g, read_f64(g.input))

get_speed_built(out, c) ==
    get_speed_processed(out, process_get(out, CMD_GET_VEHICLE_VARIABLE,
                                         <<TYPE_DOUBLE>>, c))

\* VehicleScope::get_speed: create_command, process_get, read_double_from_input
get_speed(vehicle_id) ==
    /\ Running
    /\ \E c \in WorldAnswers :
           get_speed_built(create_command(CMD_GET_VEHICLE_VARIABLE, VAR_SPEED,
                                          vehicle_id, << >>), c)

set_speed_processed(out, g) ==
    /\ output' = out
    /\ input' = g.input
    /\ Processed("set_speed", g, g.err, << >>)

set_speed_built(out, c) ==
    set_speed_processed(out, process_set(out, CMD_SET_VEHICLE_VARIABLE, c))

\* VehicleScope::set_speed: create_command with the value, process_set
set_speed(vehicle_id, speed) ==
    /\ Running
    /\ \E c \in Answers :
           set_speed_built(
               create_command(CMD_SET_VEHICLE_VARIABLE, VAR_SPEED, vehicle_id,
                              <<write_f64(write_u8(Storage_new, TYPE_DOUBLE), speed).buf>>),
               c)

\* VehicleScope::get_subscribed_kinematics on the vehicle cache: << >> for
\* None, <<position, speed, acceleration, angle>> for Some
kinematics_of(results) ==
    IF ~contains_key(results, VAR_POSITION) \/ ~contains_key(results, VAR_SPEED)
       \/ ~contains_key(results, VAR_ACCELERATION) \/ ~contains_key(results, VAR_ANGLE)
    THEN << >>
    ELSE IF get(results, VAR_POSITION).t # "Pos2D" \/ get(results, VAR_SPEED).t # "Double"
            \/ get(results, VAR_ACCELERATION).t # "Double"
            \/ get(results, VAR_ANGLE).t # "Double"
    THEN << >>
    ELSE <<get(results, VAR_POSITION).v, get(results, VAR_SPEED).v[1],
           get(results, VAR_ACCELERATION).v[1], get(results, VAR_ANGLE).v[1]>>

get_subscribed_kinematics(vehicle_id) ==
    IF contains_key(subscription_results["Vehicle"], vehicle_id)
    THEN kinematics_of(get(subscription_results["Vehicle"], vehicle_id))
    ELSE << >>

Next ==
    \/ set_order(1)
    \/ get_version
    \/ load(<< >>)
    \/ simulation_step(F0)
    \/ close
    \/ subscribe_kinematics(K0, F0, F3600)
    \/ subscribe_object_context(CMD_SUBSCRIBE_VEHICLE_CONTEXT, V0, F0, F3600,
                                CMD_GET_VEHICLE_VARIABLE, F100, <<VAR_SPEED>>)
    \/ get_speed(K0)
    \/ set_speed(K0, F13)

Spec == Init /\ [][Next]_vars

(***************************************************************************)
(* What a step response holds, read off the simulator's side.              *)
(***************************************************************************)
\* the map a response's <<variable id, status, value>> tuples describe
VarMap(item_vars) == {<<item_vars[i][1], item_vars[i][3]>> : i \in DOMAIN item_vars}

\* the map a context response's <<object id, tuples>> pairs describe
ObjMap(objs) == {<<objs[i][1], VarMap(objs[i][2])>> : i \in DOMAIN objs}

\* the id under which the routing table knows a response
TableId(item) == IF item.kind = "var" THEN item.id ELSE wrapping_add(item.id, 80)

\* every status byte of a response is success
AllOk(item) ==
    /\ \A i \in DOMAIN item.vars : item.vars[i][2] = RTYPE_OK
    /\ \A j \in DOMAIN item.objs :
           \A i \in DOMAIN item.objs[j][2] : item.objs[j][2][i][2] = RTYPE_OK

\* the last operation was a simulation_step that read a step response the
\* simulator answered with success
StepRead ==
    /\ last.op = "simulation_step"
    /\ last.got.cmd = CMD_SIMSTEP
    /\ last.got.rt = RTYPE_OK

StepOk == last.op = "simulation_step" /\ last.res = "Ok"

\* response i of the payload read is the last one for its table id and object
Final(push, i) ==
    \A j \in DOMAIN push :
        (j > i /\ push[j].kind = push[i].kind /\ push[j].obj = push[i].obj
         /\ TableId(push[j]) = TableId(push[i])) => FALSE

(***************************************************************************)
(* C1.  Every operation that sends a request reads that request's response *)
(* before it returns: when a request is sent no earlier response is still  *)
(* unread, and when an operation returns Ok no response frame is left      *)
(* unread on the connection.                                               *)
(***************************************************************************)
C1_ResponseReadBeforeReturn ==
    /\ (last.sent # << >> => last.pend = 0)
    /\ (last.res = "Ok" => unread = << >>)

(***************************************************************************)
(* C2.  Once subscribe_kinematics(v) has returned Ok, every simulation_step*)
(* the simulator answers with success returns Ok, and afterwards           *)
(* get_subscribed_kinematics(v) is Some of the four values that step       *)
(* pushed for v.                                                           *)
(***************************************************************************)
C2_KinematicsAfterEveryStep ==
    (/\ last.op = "simulation_step"
     /\ last.sent # << >>
     /\ last.mine.rt = RTYPE_OK
     /\ \A i \in DOMAIN last.mine.push : AllOk(last.mine.push[i])
     /\ standing # << >>)
    => /\ last.res = "Ok"
       /\ get_subscribed_kinematics(K0) # << >>
       /\ get_subscribed_kinematics(K0) = kinematics_of(VarMap(last.mine.push[1].vars))

C4_ContextCachesCleared ==
    StepOk =>
        \A d \in DomainId : \A e \in context_subscription_results[d] :
            \E i \in DOMAIN last.got.push :
                /\ last.got.push[i].kind = "ctx"
                /\ contains_key(domains, TableId(last.got.push[i]))
                /\ get(domains, TableId(last.got.push[i])) = d
                /\ e[1] = last.got.push[i].obj

(***************************************************************************)
(* C5 as stated.  Once the socket is absent every operation fails with a   *)
(* Connection error.                                                       *)
(***************************************************************************)
C5_ClosedEverythingFails == [][~socket => last'.res = "Connection"]_vars

(***************************************************************************)
(* C5.  Once the socket is absent no operation writes to the connection;   *)
(* set_order, get_version, load, simulation_step, close and the subscribe  *)
(* operations fail with a Connection error, while a getter or setter built *)
(* on process_get / process_set gets Ok(false) from it and does not fail   *)
(* with a Connection error.                                                *)
(***************************************************************************)
C5_ClosedEngineFails ==
    [][~socket =>
          /\ last'.sent = << >>
          /\ stream' = stream
          /\ IF last'.op \in {"get_speed", "set_speed"}
             THEN last'.pg = "false" /\ last'.res # "Connection"
             ELSE last'.res = "Connection"]_vars

\* after close, a simulation_step that failed and a set_speed that returned Ok
C5_Witness ==
    /\ ~socket
    /\ prev.op = "simulation_step" /\ prev.res = "Connection"
    /\ last.op = "set_speed" /\ last.res = "Ok" /\ last.pg = "false"

(***************************************************************************)
(* C6.  process_get and process_set with the socket absent return          *)
(* Ok(false), write and read nothing and leave the input buffer, its       *)
(* cursor and the subscription caches as they were; with the socket        *)
(* present they return Ok(true) exactly when the response read is the      *)
(* success response to their command.                                      *)
(***************************************************************************)
C6_ProcessWithoutTransport ==
    [][last'.op \in {"get_speed", "set_speed"} =>
          IF ~socket
          THEN /\ last'.pg = "false"
               /\ last'.sent = << >>
               /\ stream' = stream /\ unread' = unread
               /\ last'.pgin = input
               /\ subscription_results' = subscription_results
               /\ context_subscription_results' = context_subscription_results
          ELSE last'.pg = "true" <=>
                   /\ last'.got.rt = RTYPE_OK
                   /\ last'.got.cmd = IF last'.op = "get_speed"
                                      THEN CMD_GET_VEHICLE_VARIABLE
                                      ELSE CMD_SET_VEHICLE_VARIABLE]_vars

\* a getter called after close: process_get returned Ok(false)
C6_Witness ==
    /\ ~socket
    /\ last.op = "get_speed" /\ last.pg = "false" /\ last.sent = << >>
    /\ prev.op = "close" /\ prev.res = "Ok"

(***************************************************************************)
(* C7.  After a simulation_step that read a well-formed step response,     *)
(* each variable response of a routed domain D for object o leaves         *)
(* D's SubscriptionResults[o] equal to the map of its variables, and no    *)
(* other domain's cache holds o because of it.                             *)
(***************************************************************************)
C7_VariableResponseStored ==
    (StepRead /\ \A i \in DOMAIN last.got.push : AllOk(last.got.push[i])) =>
        \A i \in DOMAIN last.got.push :
            (/\ last.got.push[i].kind = "var"
             /\ contains_key(domains, last.got.push[i].id)
             /\ Final(last.got.push, i))
            => /\ contains_key(subscription_results[get(domains, last.got.push[i].id)],
                               last.got.push[i].obj)
               /\ get(subscription_results[get(domains, last.got.push[i].id)],
                      last.got.push[i].obj) = VarMap(last.got.push[i].vars)
               /\ \A d \in DomainId \ {get(domains, last.got.push[i].id)} :
                      contains_key(subscription_results[d], last.got.push[i].obj)
                      => \E j \in DOMAIN last.got.push :
                             /\ last.got.push[j].kind = "var"
                             /\ last.got.push[j].obj = last.got.push[i].obj
                             /\ <<last.got.push[j].id, d>> \in domains

(***************************************************************************)
(* C8.  After a simulation_step that read a well-formed step response,     *)
(* every variable response whose command id is a key of the routing table  *)
(* has an entry for its object in the SubscriptionResults of the domain    *)
(* the table names.                                                        *)
(***************************************************************************)
C8_EveryTableEntryRouted ==
    (StepRead /\ \A i \in DOMAIN last.got.push : AllOk(last.got.push[i])) =>
        \A i \in DOMAIN last.got.push : \A entry \in domains :
            (last.got.push[i].kind = "var" /\ last.got.push[i].id = entry[1])
            => contains_key(subscription_results[entry[2]], last.got.push[i].obj)

(***************************************************************************)
(* C9.  After a successful simulation_step, each context response for an   *)
(* anchor a has an entry for a in the routed domain's                      *)
(* ContextSubscriptionResults, equal to the map from the objects found to  *)
(* their variable maps: the empty map when no object was found.            *)
(***************************************************************************)
C9_ContextEntryStored ==
    StepOk =>
        \A i \in DOMAIN last.got.push :
            (/\ last.got.push[i].kind = "ctx"
             /\ contains_key(domains, TableId(last.got.push[i]))
             /\ Final(last.got.push, i))
            => /\ contains_key(
                      context_subscription_results[
                          get(domains, TableId(last.got.push[i]))],
                      last.got.push[i].obj)
               /\ get(context_subscription_results[
                          get(domains, TableId(last.got.push[i]))],
                      last.got.push[i].obj) = ObjMap(last.got.push[i].objs)

\* a step whose payload carried a context response with no object found
C9_Witness ==
    /\ StepOk
    /\ \E i \in DOMAIN last.got.push :
           last.got.push[i] = Ctx0 /\ Final(last.got.push, i)
    /\ contains_key(context_subscription_results["Vehicle"], V0)
    /\ get(context_subscription_results["Vehicle"], V0) = HashMap_new

(***************************************************************************)
(* C10.  A simulation_step that reads a step response in which a variable  *)
(* tuple carries a status other than success returns a Protocol error, and *)
(* no cache holds the object whose tuple it was.                           *)
(***************************************************************************)
C10_FailedVariableAborts ==
    StepRead =>
        \A i \in DOMAIN last.got.push :
            ~AllOk(last.got.push[i]) =>
                /\ last.res = "Protocol"
                /\ last.got.push[i].kind = "var" =>
                       \A d \in DomainId :
                           ~contains_key(subscription_results[d], last.got.push[i].obj)
                /\ last.got.push[i].kind = "ctx" =>
                       \A d \in DomainId :
                           \A e \in context_subscription_results[d] :
                               \A j \in DOMAIN last.got.push[i].objs :
                                   ~contains_key(e[2], last.got.push[i].objs[j][1])

\* a step that read a payload with a failed variable after a good response
C10_Witness ==
    /\ StepRead
    /\ last.res = "Protocol"
    /\ Len(last.got.push) = 2
    /\ last.got.push[1] = VehA
    /\ last.got.push[2] \in {VehBad, CtxBad}
    /\ contains_key(subscription_results["Vehicle"], V0)

(***************************************************************************)
(* Storage, the rest of its operations (storage.rs).                       *)
(***************************************************************************)
\* reset_pos
reset_pos(st) == [st EXCEPT !.pos = 0]

\* append_storage
append_storage(st, other) == [st EXCEPT !.buf = @ \o other.buf]

\* read_byte: the byte as a signed value
read_byte(st) ==
    Then(read_u8(st), LAMBDA r : RdOk(IF r.val < 128 THEN r.val ELSE r.val - 256, r.st))

\* write_byte: a value outside -128..127 is refused and nothing is written
write_byte(st, value) ==
    IF value < 0 - 128 \/ value > 127 THEN RdErr("Protocol", st)
    ELSE RdOk(<< >>, write_u8(st, (value + 256) % 256))

\* i16::from_be_bytes and to_be_bytes
I16FromBe(b) == (IF b[1] >= 128 THEN b[1] - Pow8 ELSE b[1]) * Pow8 + b[2]
I16ToBe(n) == << (n \div Pow8) % Pow8, n % Pow8 >>

read_i16(st) == Then(read_raw_bytes(st, 2), LAMBDA r : RdOk(I16FromBe(r.val), r.st))

write_i16(st, value) == [st EXCEPT !.buf = @ \o I16ToBe(value)]

\* the f32 is kept as its 4 bytes
read_f32(st) == read_raw_bytes(st, 4)

write_f32(st, value) == [st EXCEPT !.buf = @ \o value]

RECURSIVE write_f64s(_, _)
write_f64s(st, list) ==
    IF list = << >> THEN st ELSE write_f64s(write_f64(st, Head(list)), Tail(list))

write_f64_list(st, list) == write_f64s(write_i32(st, Len(list)), list)

(***************************************************************************)
(* The Storage buffer on its own: one buffer, created by from_bytes, and   *)
(* every operation of storage.rs called on it in any order.  input is the  *)
(* buffer; last and prev record the operations called: op, res ("Ok", the  *)
(* TraciError variant, or "Panic"), ret the value read, arg the value      *)
(* written, before the buffer the operation was called on.                 *)
(***************************************************************************)
MaxStorageOps == 3

EAcute == <<195, 169>>

StorageSeeds ==
    { << >>,
      <<1, 2, 3>>,
      Str(V0),
      <<0, 0, 0, 5, 118>>,
      <<255, 255, 255, 255, 118>>,
      <<128, 0, 0, 0>>,
      I32ToBe(2) \o Str(V0) \o Str(EAcute),
      I32ToBe(1) \o F13,
      <<0, 0, 0, 1, 255>> }

U8Values == {0, 255}
ByteValues == {0 - 128, 127, 128}
I16Values == {0 - 2, 258}
I32Values == {(0 - 2147483647) - 1, 0 - 1, 16909060}
F32Values == {<<63, 128, 0, 0>>}
F64Values == {F27_5, <<127, 248, 0, 0, 0, 0, 0, 1>>}
StringValues == {<< >>, V0, EAcute}
StringLists == {<< >>, <<V0, << >>, EAcute>>}
F64Lists == {<< >>, <<F13, F27_5>>}
Packets == {<<1, 2, 3>>}
Others == {from_bytes(<<9, 8>>)}

InitStorage ==
    /\ socket = FALSE
    /\ output = Storage_new
    /\ input \in {from_bytes(b) : b \in StorageSeeds}
    /\ subscription_results = [d \in DomainId |-> HashMap_new]
    /\ context_subscription_results = [d \in DomainId |-> HashMap_new]
    /\ stream = << >>
    /\ unread = << >>
    /\ standing = << >>
    /\ due = << >>
    /\ last = [op |-> "from_bytes", res |-> "Ok", ret |-> << >>, arg |-> << >>,
               before |-> Storage_new]
    /\ prev = last
    /\ nops = 0

StorageIdle ==
    UNCHANGED <<socket, output, subscription_results,
                context_subscription_results, stream, unread, standing, due>>

StorageDone(op, arg, res, ret, st) ==
    /\ nops < MaxStorageOps
    /\ last.res # "Panic"
    /\ input' = st
    /\ last' = [op |-> op, res |-> res, ret |-> ret, arg |-> arg, before |-> input]
    /\ prev' = last
    /\ nops' = nops + 1
    /\ StorageIdle

StorageRead(op, r) == StorageDone(op, << >>, r.err, r.val, r.st)

StorageWrote(op, arg, st) == StorageDone(op, arg, "Ok", << >>, st)

Storage_from_bytes ==
    \E b \in StorageSeeds : StorageWrote("from_bytes", b, from_bytes(b))

Storage_reset == StorageWrote("reset", << >>, reset(input))

Storage_reset_pos == StorageWrote("reset_pos", << >>, reset_pos(input))

Storage_append_storage ==
    \E other \in Others :
        StorageWrote("append_storage", other.buf, append_storage(input, other))

Storage_read_u8 == StorageRead("read_u8", read_u8(input))

Storage_read_byte == StorageRead("read_byte", read_byte(input))

Storage_read_i16 == StorageRead("read_i16", read_i16(input))

Storage_read_i32 == StorageRead("read_i32", read_i32(input))

Storage_read_f32 == StorageRead("read_f32", read_f32(input))

Storage_read_f64 == StorageRead("read_f64", read_f64(input))

Storage_read_string == StorageRead("read_string", read_string(input))

Storage_read_string_list ==
    StorageRead("read_string_list", read_string_list(input))

Storage_read_f64_list == StorageRead("read_f64_list", read_f64_list(input))

Storage_write_u8 ==
    \E v \in U8Values : StorageWrote("write_u8", v, write_u8(input, v))

Storage_write_byte_done(v, r) == StorageDone("write_byte", v, r.err, << >>, r.st)

Storage_write_byte ==
    \E v \in ByteValues : Storage_write_byte_done(v, write_byte(input, v))

Storage_write_i16 ==
    \E v \in I16Values : StorageWrote("write_i16", v, write_i16(input, v))

Storage_write_i32 ==
    \E v \in I32Values : StorageWrote("write_i32", v, write_i32(input, v))

Storage_write_f32 ==
    \E v \in F32Values : StorageWrote("write_f32", v, write_f32(input, v))

Storage_write_f64 ==
    \E v \in F64Values : StorageWrote("write_f64", v, write_f64(input, v))

Storage_write_string ==
    \E v \in StringValues : StorageWrote("write_string", v, write_string(input, v))

Storage_write_string_list ==
    \E v \in StringLists :
        StorageWrote("write_string_list", v, write_string_list(input, v))

Storage_write_f64_list ==
    \E v \in F64Lists : StorageWrote("write_f64_list", v, write_f64_list(input, v))

Storage_write_packet ==
    \E v \in Packets : StorageWrote("write_packet", v, write_packet(input, v))

NextStorage ==
    \/ Storage_from_bytes
    \/ Storage_reset
    \/ Storage_reset_pos
    \/ Storage_append_storage
    \/ Storage_read_u8
    \/ Storage_read_byte
    \/ Storage_read_i16
    \/ Storage_read_i32
    \/ Storage_read_f32
    \/ Storage_read_f64
    \/ Storage_read_string
    \/ Storage_read_string_list
    \/ Storage_read_f64_list
    \/ Storage_write_u8
    \/ Storage_write_byte
    \/ Storage_write_i16
    \/ Storage_write_i32
    \/ Storage_write_f32
    \/ Storage_write_f64
    \/ Storage_write_string
    \/ Storage_write_string_list
    \/ Storage_write_f64_list
    \/ Storage_write_packet

SpecStorage == InitStorage /\ [][NextStorage]_vars

(***************************************************************************)
(* Claims about the Storage buffer.                                        *)
(***************************************************************************)
ReadOps ==
    {"read_u8", "read_byte", "read_i16", "read_i32", "read_f32", "read_f64",
     "read_string", "read_string_list", "read_f64_list"}

WriteOps ==
    {"write_u8", "write_byte", "write_i16", "write_i32", "write_f32",
     "write_f64", "write_string", "write_string_list", "write_f64_list",
     "write_packet", "append_storage"}

\* the bytes after the cursor
Rest(st) == SubSeq(st.buf, st.pos + 1, Len(st.buf))

\* the 32-bit prefix the bytes b start with
Declared(b) == I32FromBe(SubSeq(b, 1, 4))

\* b does not hold the string its prefix declares
ShortString(b) == Len(b) < 4 \/ Declared(b) < 0 \/ Declared(b) > Len(b) - 4

RECURSIVE ShortStrings(_, _)
ShortStrings(b, count) ==
    /\ count > 0
    /\ \/ ShortString(b)
       \/ ShortStrings(SubSeq(b, 5 + Declared(b), Len(b)), count - 1)

\* fewer bytes remain in b than the read needs
ShortRead(op, b) ==
    CASE op \in {"read_u8", "read_byte"} -> Len(b) < 1
      [] op = "read_i16" -> Len(b) < 2
      [] op \in {"read_i32", "read_f32"} -> Len(b) < 4
      [] op = "read_f64" -> Len(b) < 8
      [] op = "read_string" -> ShortString(b)
      [] op = "read_string_list" ->
             \/ Len(b) < 4
             \/ Declared(b) < 0
             \/ ShortStrings(SubSeq(b, 5, Len(b)), Declared(b))
      [] op = "read_f64_list" ->
             \/ Len(b) < 4
             \/ Declared(b) < 0
             \/ Declared(b) > (Len(b) - 4) \div 8
      [] OTHER -> FALSE

\* the read started at a negative length or count prefix
NegativePrefix(op, b) ==
    /\ op \in {"read_string", "read_string_list", "read_f64_list"}
    /\ Len(b) >= 4
    /\ Declared(b) < 0

\* C14: a read that needs more bytes than remain after the cursor returns a
\* Protocol error: it does not panic and it returns no value.
C14_ShortReadIsProtocolError ==
    ShortRead(last.op, Rest(last.before)) =>
        last.res = "Protocol" /\ last.ret = << >>

\* C15: read_string with a negative length prefix, and read_string_list and
\* read_f64_list with a negative count prefix, return a Protocol error.
C15_NegativePrefixRejected ==
    NegativePrefix(last.op, Rest(last.before)) => last.res = "Protocol"

RoundTripOps ==
    { <<"write_u8", "read_u8">>, <<"write_i32", "read_i32">>,
      <<"write_f64", "read_f64">>, <<"write_string", "read_string">>,
      <<"write_string_list", "read_string_list">>,
      <<"write_f64_list", "read_f64_list">> }

AtEnd(st) == st.pos = Len(st.buf)

\* the last two operations: a write at the end of the buffer, then its read
WroteThenRead ==
    /\ <<prev.op, last.op>> \in RoundTripOps
    /\ AtEnd(prev.before)

\* an i32, a string and an f64 read one after the other
ReadBack(st) ==
    Then(read_i32(st), LAMBDA a :
    Then(read_string(a.st), LAMBDA s :
    Then(read_f64(s.st), LAMBDA d : RdOk(<<a.val, s.val, d.val>>, d.st))))

InOrder(w, a, s, d) == ReadBack(w) = RdOk(<<a, s, d>>, [w EXCEPT !.pos = Len(w.buf)])

\* C16: a value written at the cursor by write_* and read by the matching
\* read_* comes back equal, the cursor advancing by the number of bytes
\* written; values written one after the other are read back in that order.
C16_RoundTrip ==
    /\ WroteThenRead =>
           /\ last.res = "Ok"
           /\ last.ret = prev.arg
           /\ input.pos - last.before.pos
                  = Len(last.before.buf) - Len(prev.before.buf)
    /\ AtEnd(input) =>
           \A a \in I32Values, s \in StringValues, d \in F64Values :
               InOrder(write_f64(write_string(write_i32(input, a), s), d), a, s, d)

\* a list of strings written after bytes already read, then read back
C16_Witness ==
    /\ WroteThenRead
    /\ last.op = "read_string_list"
    /\ prev.arg # << >>
    /\ prev.before.buf # << >>
    /\ last.ret = prev.arg

\* C19: the read cursor is never past the end of the buffer.
C19_CursorWithinBuffer == input.pos <= Len(input.buf)

\* reset called after a failed read_string that had advanced the cursor
C19_Witness ==
    /\ last.op = "reset"
    /\ last.before.pos > 0
    /\ prev.op = "read_string"
    /\ prev.res = "Protocol"

\* C20: a write leaves the cursor where it was and leaves every byte the
\* buffer held at its index.
C20_WritesOnlyAppend ==
    last.op \in WriteOps =>
        /\ input.pos = last.before.pos
        /\ Len(input.buf) >= Len(last.before.buf)
        /\ SubSeq(input.buf, 1, Len(last.before.buf)) = last.before.buf

\* a list written to a buffer read half way
C20_Witness ==
    /\ last.op = "write_string_list"
    /\ last.arg # << >>
    /\ last.before.pos > 0
    /\ last.before.pos < Len(last.before.buf)
    /\ Len(input.buf) > Len(last.before.buf)

(***************************************************************************)
(* The framing and validation layer on its own: a client whose connection  *)
(* delivers the bytes of stream and then ends.  The far end wrote any      *)
(* bytes (WireSeeds) and may write more frames with send_exact.  last and  *)
(* prev record the calls: op, res, ret, arg, before the bytes of stream    *)
(* and inp the input buffer when the call was made, sent the bytes the     *)
(* call wrote to the far end.                                              *)
(***************************************************************************)
MaxWireOps == 3

\* an object id of n bytes
OfLen(n) == [i \in 1..n |-> 97]

\* the get response: length, response command id, variable, object, value
GetBlock(resp, type, value) == SrvCmd(<<resp, VAR_SPEED>> \o Str(V0) \o <<type>> \o value)

GetBlockExtended(resp, type, value) ==
    <<0>> \o I32ToBe(Len(Str(V0)) + Len(value) + 8)
          \o <<resp, VAR_SPEED>> \o Str(V0) \o <<type>> \o value

StatusSeeds ==
    { SrvStatus(CMD_SIMSTEP, RTYPE_OK, << >>),
      SrvStatus(5, RTYPE_OK, << >>),
      SrvStatus(CMD_ADD_SUBSCRIPTION_FILTER, RTYPE_OK, << >>),
      SrvStatus(CMD_SIMSTEP, RTYPE_ERR, V0),
      SrvStatus(CMD_SIMSTEP, RTYPE_NOTIMPLEMENTED, V0),
      SrvStatus(CMD_SIMSTEP, 2, V0),
      SrvStatus(5, RTYPE_ERR, V0) }

GetSeeds ==
    { SrvStatus(CMD_GET_VEHICLE_VARIABLE, RTYPE_OK, << >>)
          \o GetBlock(180, TYPE_DOUBLE, F27_5),
      SrvStatus(CMD_GET_VEHICLE_VARIABLE, RTYPE_OK, << >>)
          \o GetBlock(179, TYPE_DOUBLE, F27_5),
      SrvStatus(CMD_GET_VEHICLE_VARIABLE, RTYPE_OK, << >>)
          \o GetBlock(180, TYPE_INTEGER, I32ToBe(5)),
      SrvStatus(CMD_GET_VEHICLE_VARIABLE, RTYPE_OK, << >>)
          \o GetBlockExtended(180, TYPE_DOUBLE, F27_5),
      SrvStatus(CMD_GET_VEHICLE_VARIABLE, RTYPE_ERR, V0),
      SrvStatus(CMD_GET_VEHICLE_VARIABLE, RTYPE_OK, << >>) }

WireSeeds ==
    {SrvFrame(p) : p \in StatusSeeds \cup GetSeeds}
    \cup { << >>, <<0, 0>>, <<0, 0, 0, 3>>, <<0, 0, 0, 4>>, <<0, 0, 0, 9, 1, 2>>,
           <<255, 255, 255, 255>>,
           SrvFrame(SrvStatus(CMD_SIMSTEP, RTYPE_OK, << >>)) \o <<0, 0, 0, 0>> }

WireBuffers ==
    { Storage_new,
      from_bytes(<<1, 2, 3>>),
      [buf |-> SrvStatus(CMD_SIMSTEP, RTYPE_ERR, V0), pos |-> 2] }

WireCommands == {CMD_SIMSTEP, CMD_GET_VEHICLE_VARIABLE}

ExpectedTypes == {<< >>, <<TYPE_DOUBLE>>, <<TYPE_INTEGER>>}

ObjIds == {OfLen(2), OfLen(248), OfLen(249), OfLen(260)}

Adds == {<< >>, << <<7>> >>}

InitWire ==
    /\ socket = TRUE
    /\ output = Storage_new
    /\ input = Storage_new
    /\ subscription_results = [d \in DomainId |-> HashMap_new]
    /\ context_subscription_results = [d \in DomainId |-> HashMap_new]
    /\ stream \in WireSeeds
    /\ unread = << >>
    /\ standing = << >>
    /\ due = << >>
    /\ last = [op |-> "connect", res |-> "Ok", ret |-> << >>, arg |-> << >>,
               before |-> << >>, inp |-> Storage_new, sent |-> << >>]
    /\ prev = last
    /\ nops = 0

WireIdle ==
    UNCHANGED <<socket, subscription_results, context_subscription_results,
                unread, standing, due>>

WireDone(op, arg, res, ret, sent, out, inp, str) ==
    /\ nops < MaxWireOps
    /\ last.res # "Panic"
    /\ output' = out
    /\ input' = inp
    /\ stream' = str
    /\ last' = [op |-> op, res |-> res, ret |-> ret, arg |-> arg,
                before |-> stream, inp |-> input, sent |-> sent]
    /\ prev' = last
    /\ nops' = nops + 1
    /\ WireIdle

\* the far end writes one more frame
Wire_sent(storage, frame) ==
    WireDone("send_exact", storage, "Ok", << >>, << >>, output, input,
             stream \o frame)

Wire_send_exact == \E storage \in WireBuffers : Wire_sent(storage, send_exact(storage))

\* self.input = sock.receive_exact()?
Wire_received(rc) ==
    WireDone("receive_exact", << >>, rc.err, << >>, << >>, output,
             IF rc.err = "Ok" THEN rc.st ELSE input, rc.rest)

Wire_receive_exact == Wire_received(receive_exact(stream))

Wire_checked(command, r) ==
    WireDone("check_result_state", command, r.err, r.val, << >>, output, r.st,
             stream)

Wire_check_result_state ==
    \E command \in WireCommands :
        Wire_checked(command, check_result_state_static(input, command, FALSE))

WireExchange(frame, rc) ==
    [err |-> rc.err, in_msg |-> rc.st, rest |-> rc.rest, sent |-> frame]

Wire_processed(command, expected_type, p) ==
    WireDone("process_get", <<command, expected_type>>, p.err, p.ret, p.x.sent,
             output, p.input, p.x.rest)

Wire_process_get ==
    \E command \in WireCommands, expected_type \in ExpectedTypes :
        Wire_processed(command, expected_type,
            process_get_received(
                WireExchange(send_exact(from_bytes(output.buf)), receive_exact(stream)),
                command, expected_type))

\* create_command without self.output.reset()
Wire_created_appending(obj_id, add, out) ==
    WireDone("create_command", <<obj_id, add>>, "Ok", << >>, << >>,
             [output EXCEPT !.buf = @ \o out.buf], input, stream)

Wire_created(obj_id, add, out) ==
    WireDone("create_command", <<obj_id, add>>, "Ok", << >>, << >>, out, input,
             stream)

Wire_create_command ==
    \E obj_id \in ObjIds, add \in Adds :
        Wire_created(obj_id, add,
                     create_command(CMD_GET_VEHICLE_VARIABLE, VAR_SPEED, obj_id, add))

FilterAdds == {<< >>, << <<TYPE_UBYTE, 3>> >>, << OfLen(253) >>}

Wire_filter_created(add, out) ==
    WireDone("create_filter_command", <<FILTER_TYPE_LANES, add>>, "Ok", << >>, << >>,
             out, input, stream)

Wire_create_filter_command ==
    \E add \in FilterAdds :
        Wire_filter_created(add,
            create_filter_command(CMD_ADD_SUBSCRIPTION_FILTER, FILTER_TYPE_LANES, add))

Wire_set_processed(command, p) ==
    WireDone("process_set", <<command, << >> >>, p.err, p.ret, p.x.sent,
             output, p.input, p.x.rest)

Wire_process_set ==
    \E command \in {CMD_SET_VEHICLE_VARIABLE, CMD_ADD_SUBSCRIPTION_FILTER} :
        Wire_set_processed(command,
            process_set_received(
                WireExchange(send_exact(from_bytes(output.buf)), receive_exact(stream)),
                command))

NextWire ==
    \/ Wire_send_exact
    \/ Wire_receive_exact
    \/ Wire_check_result_state
    \/ Wire_process_get
    \/ Wire_create_command
    \/ Wire_create_filter_command
    \/ Wire_process_set

SpecWire == InitWire /\ [][NextWire]_vars

(***************************************************************************)
(* Claims about framing and validation.                                    *)
(***************************************************************************)
\* a result-status block: length byte, command id, result type, message
StatusMsgLen(b) == Declared(SubSeq(b, 4, 7))

StatusMsg(b) == SubSeq(b, 8, 7 + StatusMsgLen(b))

WellFormedStatus(b) ==
    /\ Len(b) >= 7
    /\ StatusMsgLen(b) >= 0
    /\ StatusMsgLen(b) <= Len(b) - 7
    /\ ValidUtf8(StatusMsg(b))

Classified(b, command) ==
    IF b[2] # command THEN "Protocol"
    ELSE IF b[3] = 0 THEN "Ok"
    ELSE IF b[3] = 1 THEN "NotImplemented"
    ELSE IF b[3] = 255 THEN "SimulationError"
    ELSE "Protocol"

\* C11: the result-status validation of a well-formed status block returns a
\* Protocol error when the echoed id is not the expected command, whatever
\* the result type; otherwise Ok for type 0x00, NotImplemented for 0x01,
\* SimulationError with the server's message for 0xFF, Protocol for the rest.
C11_StatusClassified ==
    (last.op = "check_result_state" /\ WellFormedStatus(Rest(last.inp))) =>
        /\ last.res = Classified(Rest(last.inp), last.arg)
        /\ last.res = "SimulationError" => last.ret = StatusMsg(Rest(last.inp))

\* a status of type 0xFF for another command than the expected one
C11_Witness ==
    /\ last.op = "check_result_state"
    /\ WellFormedStatus(Rest(last.inp))
    /\ Rest(last.inp)[2] # last.arg
    /\ Rest(last.inp)[3] = 255
    /\ last.res = "Protocol"
    /\ prev.op = "receive_exact"

\* the frame at the head of the bytes b is complete
WholeFrame(b) ==
    /\ Len(b) >= 4
    /\ Declared(b) >= 4
    /\ Declared(b) <= Len(b)

HeadPayload(b) == SubSeq(b, 5, Declared(b))

\* the block after the status block, without its length field
GetBody(p) ==
    IF p[8 + StatusMsgLen(p)] = 0
    THEN SubSeq(p, 13 + StatusMsgLen(p), Len(p))
    ELSE SubSeq(p, 9 + StatusMsgLen(p), Len(p))

ObjLen(body) == Declared(SubSeq(body, 3, 6))

RespId(body) == body[1]

TypeTag(body) == body[7 + ObjLen(body)]

\* a successful status for command followed by a whole get block
WellFormedGet(p, command) ==
    /\ WellFormedStatus(p)
    /\ p[2] = command
    /\ p[3] = 0
    /\ Len(p) > 7 + StatusMsgLen(p)
    /\ Len(GetBody(p)) >= 7
    /\ ObjLen(GetBody(p)) >= 0
    /\ Len(GetBody(p)) >= 7 + ObjLen(GetBody(p))
    /\ ValidUtf8(SubSeq(GetBody(p), 7, 6 + ObjLen(GetBody(p))))

Matches(body, command, expected_type) ==
    /\ RespId(body) = command + 16
    /\ expected_type # << >> => TypeTag(body) = expected_type[1]

\* C12: process_get returns Ok only for a response whose command id is
\* command + 0x10 and whose value-type tag is expected_type when one is
\* given; a well-formed response with another id or tag is a Protocol error
\* and nothing is returned.
C12_GetResponseChecked ==
    last.op = "process_get" =>
        /\ last.res = "Ok" =>
               /\ last.ret = "true"
               /\ WholeFrame(last.before)
               /\ Matches(GetBody(HeadPayload(last.before)), last.arg[1], last.arg[2])
        /\ ( /\ WholeFrame(last.before)
             /\ WellFormedGet(HeadPayload(last.before), last.arg[1])
             /\ ~Matches(GetBody(HeadPayload(last.before)), last.arg[1], last.arg[2]) )
               => last.res = "Protocol" /\ last.ret = ""

\* the response id is right and the tag is not the expected one
C12_Witness ==
    /\ last.op = "process_get"
    /\ last.res = "Protocol"
    /\ WholeFrame(last.before)
    /\ WellFormedGet(HeadPayload(last.before), last.arg[1])
    /\ RespId(GetBody(HeadPayload(last.before))) = last.arg[1] + 16
    /\ last.arg[2] = <<TYPE_DOUBLE>>
    /\ TypeTag(GetBody(HeadPayload(last.before))) = TYPE_INTEGER

\* the length create_command computes: 1+1+1+4+len(object_id)+len(extra)
CommandLength(arg) ==
    1 + 1 + 1 + 4 + Len(arg[1]) + (IF arg[2] = << >> THEN 0 ELSE Len(arg[2][1]))

\* C13: create_command starts the buffer with the byte L when L <= 255 and
\* with 0x00 and the big-endian L + 4 when L >= 256; an object id of 2 bytes
\* without extra gives L = 9, an object id of 260 bytes the extended form.
C13_LengthForm ==
    last.op = "create_command" =>
        /\ CommandLength(last.arg) <= 255 =>
               /\ output.buf[1] = CommandLength(last.arg)
               /\ output.buf[1] # 0
        /\ CommandLength(last.arg) >= 256 =>
               /\ output.buf[1] = 0
               /\ I32FromBe(SubSeq(output.buf, 2, 5)) = CommandLength(last.arg) + 4
        /\ (Len(last.arg[1]) = 2 /\ last.arg[2] = << >>) => output.buf[1] = 9
        /\ Len(last.arg[1]) = 260 => output.buf[1] = 0

\* L = 256 exactly, after a command of L = 255
C13_Witness ==
    /\ last.op = "create_command"
    /\ CommandLength(last.arg) = 256
    /\ output.buf[1] = 0
    /\ prev.op = "create_command"
    /\ CommandLength(prev.arg) = 255

\* the bytes the last send_exact added to the stream
Emitted == SubSeq(stream, Len(last.before) + 1, Len(stream))

\* C17: send_exact writes the big-endian header 4 + len(buf) and then buf;
\* receive_exact on those bytes returns buf's bytes with the cursor at 0 and
\* takes exactly one frame from the stream.
C17_FrameIntegrity ==
    /\ last.op = "send_exact" =>
           /\ SubSeq(stream, 1, Len(last.before)) = last.before
           /\ Len(Emitted) = 4 + Len(last.arg.buf)
           /\ I32FromBe(SubSeq(Emitted, 1, 4)) = 4 + Len(last.arg.buf)
           /\ SubSeq(Emitted, 5, Len(Emitted)) = last.arg.buf
    /\ (prev.op = "send_exact" /\ prev.before = << >> /\ last.op = "receive_exact") =>
           /\ last.res = "Ok"
           /\ input = [buf |-> prev.arg.buf, pos |-> 0]
           /\ stream = << >>
    /\ (last.op = "receive_exact" /\ last.res = "Ok") =>
           /\ input.pos = 0
           /\ last.before = I32ToBe(4 + Len(input.buf)) \o input.buf \o stream

\* a buffer with an advanced cursor sent on an empty stream and received
C17_Witness ==
    /\ prev.op = "send_exact"
    /\ prev.before = << >>
    /\ prev.arg.pos > 0
    /\ last.op = "receive_exact"
    /\ last.res = "Ok"
    /\ input.buf = prev.arg.buf
    /\ input.buf # << >>

\* C18: receive_exact returns a Protocol error and no buffer for a header
\* below 4, an empty buffer for a header of exactly 4, and a Connection
\* error when the stream ends inside the header or the payload.
C18_ShortFrames ==
    last.op = "receive_exact" =>
        /\ Len(last.before) < 4 => last.res = "Connection"
        /\ (Len(last.before) >= 4 /\ Declared(last.before) \in 0..3) =>
               last.res = "Protocol" /\ input = last.inp
        /\ (Len(last.before) >= 4 /\ Declared(last.before) = 4) =>
               last.res = "Ok" /\ input = [buf |-> << >>, pos |-> 0]
        /\ ( /\ Len(last.before) >= 4
             /\ \/ Declared(last.before) < 0
                \/ Declared(last.before) > Len(last.before) ) =>
               last.res = "Connection"
        /\ last.res # "Ok" => input = last.inp

\* a header of 0 read after a whole frame: the buffer of that frame stays
C18_Witness ==
    /\ last.op = "receive_exact"
    /\ last.res = "Protocol"
    /\ Declared(last.before) = 0
    /\ last.inp.buf # << >>
    /\ input = last.inp

(***************************************************************************)
(* The typed-value decoder on its own: read_typed_value and                *)
(* read_variables_static called on a buffer of response bytes.  last and   *)
(* prev record the calls: op, res, ret the value or the map decoded, arg   *)
(* the type tag or the variable count, before the buffer of the call.      *)
(***************************************************************************)
MaxValueOps == 2

\* one polygon point list: a count byte and the points
PolygonBody == <<1>> \o F13 \o F27_5

ValueSeeds ==
    { F27_5 \o <<7>>,
      I32ToBe(0 - 1) \o <<7>>,
      Str(V0) \o <<7>>,
      I32ToBe(2) \o Str(V0) \o Str(EAcute) \o <<7>>,
      I32ToBe(2) \o F13 \o F27_5 \o <<7>>,
      <<1, 2, 3, 4, 7>>,
      F13 \o F27_5 \o F13 \o <<7>>,
      <<200>>,
      PolygonBody,
      << >>,
      <<VAR_SPEED, RTYPE_OK, TYPE_DOUBLE>> \o F27_5
          \o <<VAR_ANGLE, RTYPE_OK, TYPE_UBYTE, 200>>,
      <<VAR_SPEED, RTYPE_OK, TYPE_POLYGON>> \o PolygonBody
          \o <<VAR_ANGLE, RTYPE_OK, TYPE_DOUBLE>> \o F27_5,
      <<VAR_SPEED, RTYPE_OK, TYPE_COMPOUND, VAR_POSITION, RTYPE_OK, TYPE_UBYTE, 9>>,
      <<VAR_SPEED, RTYPE_OK, TYPE_COLOR, 1, 2, 3, 4,
        VAR_ANGLE, RTYPE_ERR, TYPE_DOUBLE>> }

TypeIds ==
    { TYPE_DOUBLE, TYPE_INTEGER, TYPE_STRING, TYPE_STRINGLIST, TYPE_DOUBLELIST,
      TYPE_COLOR, POSITION_2D, POSITION_3D, TYPE_UBYTE,
      TYPE_POLYGON, TYPE_BYTE, TYPE_COMPOUND, 0, 255 }

VarCounts == {1, 2}

InitValue ==
    /\ socket = FALSE
    /\ output = Storage_new
    /\ input \in {from_bytes(b) : b \in ValueSeeds}
    /\ subscription_results = [d \in DomainId |-> HashMap_new]
    /\ context_subscription_results = [d \in DomainId |-> HashMap_new]
    /\ stream = << >>
    /\ unread = << >>
    /\ standing = << >>
    /\ due = << >>
    /\ last = [op |-> "from_bytes", res |-> "Ok", ret |-> << >>, arg |-> 0,
               before |-> Storage_new]
    /\ prev = last
    /\ nops = 0

ValueDone(op, arg, r) ==
    /\ nops < MaxValueOps
    /\ last.res # "Panic"
    /\ input' = r.st
    /\ last' = [op |-> op, res |-> r.err, ret |-> r.val, arg |-> arg,
                before |-> input]
    /\ prev' = last
    /\ nops' = nops + 1
    /\ StorageIdle

Value_read_typed_value ==
    \E type_id \in TypeIds :
        ValueDone("read_typed_value", type_id, read_typed_value(input, type_id))

Value_read_variables_static ==
    \E var_count \in VarCounts :
        ValueDone("read_variables_static", var_count,
                  read_variables_static(input, var_count, HashMap_new))

NextValue ==
    \/ Value_read_typed_value
    \/ Value_read_variables_static

SpecValue == InitValue /\ [][NextValue]_vars

(***************************************************************************)
(* Claims about the typed-value decoder.                                   *)
(***************************************************************************)
\* the bytes the last call moved the cursor over
Consumed == SubSeq(last.before.buf, last.before.pos + 1, input.pos)

RECURSIVE StrsOnWire(_)
StrsOnWire(list) ==
    IF list = << >> THEN << >> ELSE Str(Head(list)) \o StrsOnWire(Tail(list))

RECURSIVE DoublesOnWire(_)
DoublesOnWire(list) ==
    IF list = << >> THEN << >> ELSE Head(list) \o DoublesOnWire(Tail(list))

\* the variant the protocol gives a type tag, and the tag's fixed size
VariantOfTag(tag) ==
    CASE tag = 11 -> "Double"
      [] tag = 9 -> "Int"
      [] tag = 12 -> "String"
      [] tag = 14 -> "StringList"
      [] tag = 16 -> "DoubleList"
      [] tag = 17 -> "Color"
      [] tag = 1 -> "Pos2D"
      [] tag = 3 -> "Pos3D"
      [] tag = 7 -> "Int"
      [] tag = 6 -> "Polygon"
      [] OTHER -> "Unknown"

Recognised == {11, 9, 12, 14, 16, 17, 1, 3, 7}

\* the encoding on the wire of a value decoded from tag
OnWire(tag, val) ==
    CASE tag = 11 -> val.v[1]
      [] tag = 9 -> I32ToBe(val.v[1][1])
      [] tag = 12 -> Str(val.v[1])
      [] tag = 14 -> I32ToBe(Len(val.v)) \o StrsOnWire(val.v)
      [] tag = 16 -> I32ToBe(Len(val.v)) \o DoublesOnWire(val.v)
      [] tag = 17 -> val.v[1]
      [] tag = 1 -> val.v[1] \o val.v[2]
      [] tag = 3 -> val.v[1] \o val.v[2] \o val.v[3]
      [] tag = 7 -> val.v[1]

FixedSize(tag) ==
    CASE tag = 11 -> 8
      [] tag = 9 -> 4
      [] tag = 17 -> 4
      [] tag = 1 -> 16
      [] tag = 3 -> 24
      [] tag = 7 -> 1
      [] OTHER -> 0

\* C21: read_typed_value returns, for each recognised tag, the variant of
\* that tag holding the value encoded at the cursor, and moves the cursor
\* over exactly the bytes of that value; fixed-size values are read whenever
\* their bytes are there.
C21_TypedValueDecoded ==
    (last.op = "read_typed_value" /\ last.arg \in Recognised) =>
        /\ last.res = "Ok" =>
               /\ last.ret.t = VariantOfTag(last.arg)
               /\ Consumed = OnWire(last.arg, last.ret)
               /\ input.buf = last.before.buf
               /\ FixedSize(last.arg) > 0 => Len(Consumed) = FixedSize(last.arg)
               /\ last.arg = 7 => last.ret.v[1][1] \in 0..255
        /\ (FixedSize(last.arg) > 0 /\ Len(Rest(last.before)) >= FixedSize(last.arg))
               => last.res = "Ok"

\* a colour read from the bytes that follow a decoded unsigned byte
C21_Witness ==
    /\ last.op = "read_typed_value"
    /\ last.arg = 17
    /\ last.res = "Ok"
    /\ last.ret = TraciValue("Color", << <<2, 3, 4, 7>> >>)
    /\ prev.op = "read_typed_value"
    /\ prev.arg = 7
    /\ prev.res = "Ok"

\* C22: every documented tag decodes to its variant (0x06 to Polygon), and
\* two different recognised tags never decode to the same variant.
C22_VariantsOneToOne ==
    /\ (last.op = "read_typed_value" /\ last.res = "Ok"
            /\ last.arg \in Recognised \cup {6}) =>
           last.ret.t = VariantOfTag(last.arg)
    /\ ( /\ last.op = "read_typed_value" /\ last.res = "Ok"
         /\ prev.op = "read_typed_value" /\ prev.res = "Ok"
         /\ last.arg \in Recognised /\ prev.arg \in Recognised
         /\ last.arg # prev.arg ) => last.ret.t # prev.ret.t

\* the first tuple at the cursor: variable id, status, type tag
FirstTag(st) == st.buf[st.pos + 3]

UnknownFirst(st) ==
    /\ Len(st.buf) - st.pos >= 3
    /\ st.buf[st.pos + 2] = 0
    /\ FirstTag(st) \notin Recognised

\* C23: an unrecognised tag decodes to Ok(Unknown) holding the tag, with no
\* payload and no byte consumed; read_variables_static therefore parses the
\* bytes of the unrecognised value as the next tuple.
C23_UnknownConsumesNothing ==
    /\ (last.op = "read_typed_value" /\ last.arg \notin Recognised) =>
           /\ last.res = "Ok"
           /\ last.ret = TraciValue("Unknown", << <<last.arg>> >>)
           /\ input = last.before
    /\ (last.op = "read_variables_static" /\ UnknownFirst(last.before)) =>
           /\ last.arg = 1 =>
                  /\ last.res = "Ok"
                  /\ input.pos = last.before.pos + 3
           /\ (last.arg = 2 /\ last.res = "Ok") =>
                  /\ Len(last.before.buf) - last.before.pos >= 4
                  /\ contains_key(last.ret, last.before.buf[last.before.pos + 4])
           /\ (last.arg = 2 /\ Len(last.before.buf) - last.before.pos >= 5
                   /\ last.before.buf[last.before.pos + 5] # 0) =>
                  last.res = "Protocol"

\* the byte after a compound tag is taken for the id of a second variable
C23_Witness ==
    /\ last.op = "read_variables_static"
    /\ last.arg = 2
    /\ UnknownFirst(last.before)
    /\ FirstTag(last.before) = 15
    /\ last.res = "Ok"
    /\ get(last.ret, VAR_POSITION) = TraciValue("Int", << <<9>> >>)
    /\ get(last.ret, VAR_SPEED) = TraciValue("Unknown", << <<15>> >>)

\* ---------------------------------------------------------------------------
\* the output buffer between create_command and process_get/process_set
\* ---------------------------------------------------------------------------

\* a command on the wire: the length in its short or extended form, the
\* command id, the variable id and the rest
OneCommand(cmd, var, body) ==
    LET n == 1 + 1 + 1 + Len(body)
    IN  (IF n <= 255 THEN <<n>> ELSE <<0>> \o I32ToBe(n + 4)) \o <<cmd, var>> \o body

Extra(add) == IF add = << >> THEN << >> ELSE add[1]

\* the command the last create_command or create_filter_command was asked for
Built ==
    IF last.op = "create_command"
    THEN OneCommand(CMD_GET_VEHICLE_VARIABLE, VAR_SPEED,
                    Str(last.arg[1]) \o Extra(last.arg[2]))
    ELSE OneCommand(CMD_ADD_SUBSCRIPTION_FILTER, last.arg[1], Extra(last.arg[2]))

\* C26: after create_command or create_filter_command the output buffer holds
\* that one command's bytes and nothing of an earlier command, and the next
\* process_get or process_set sends exactly those bytes as one frame.
C26_OutputHoldsOneCommand ==
    /\ last.op \in {"create_command", "create_filter_command"} =>
           output = [buf |-> Built, pos |-> 0]
    /\ (last.op \in {"process_get", "process_set"}
            /\ prev.op \in {"create_command", "create_filter_command"}) =>
           /\ last.sent = I32ToBe(4 + Len(output.buf)) \o output.buf
           /\ I32FromBe(SubSeq(last.sent, 1, 4)) = Len(last.sent)

\* a short filter command built after a command in the extended form
C26_Witness ==
    /\ last.op = "create_filter_command"
    /\ last.arg[2] = << >>
    /\ output.buf = <<3, CMD_ADD_SUBSCRIPTION_FILTER, FILTER_TYPE_LANES>>
    /\ prev.op = "create_command"
    /\ Len(prev.arg[1]) = 260

\* ---------------------------------------------------------------------------
\* two responses for one object in one step response
\* ---------------------------------------------------------------------------

\* response j of the payload is a later response of the kind, table id and
\* object of response i
Repeats(push, i, j) ==
    /\ i < j
    /\ push[j].kind = push[i].kind
    /\ push[j].obj = push[i].obj
    /\ TableId(push[j]) = TableId(push[i])
    /\ contains_key(domains, TableId(push[i]))

\* the cache entry a response is stored under, and what the response describes
Stored(item) ==
    IF item.kind = "var"
    THEN get(subscription_results[get(domains, TableId(item))], item.obj)
    ELSE get(context_subscription_results[get(domains, TableId(item))], item.obj)

Described(item) == IF item.kind = "var" THEN VarMap(item.vars) ELSE ObjMap(item.objs)

\* C28: when a step response carries two variable responses for the same
\* domain and object, the object's entry after simulation_step is the variable
\* map of the later response only, not the union; a later context response
\* for the same anchor likewise replaces the earlier one.
C28_LaterResponseReplaces ==
    StepOk =>
        \A i, j \in DOMAIN last.got.push :
            (Repeats(last.got.push, i, j) /\ Final(last.got.push, j)) =>
                Stored(last.got.push[j]) = Described(last.got.push[j])

\* a step that read two responses for vehicle v0, the later one without the
\* position the earlier one carried
C28_Witness ==
    /\ StepOk
    /\ last.got.push = <<VehA, VehB>>
    /\ get(subscription_results["Vehicle"], V0) = {<<VAR_SPEED, Double(F13)>>}

(***************************************************************************)
(* simulation_step against a simulator that pushes one subscription        *)
(* response of any id with each step response.                             *)
(***************************************************************************)
MaxSteps == 2

\* RESPONSE_SUBSCRIBE_X_CONTEXT for each domain X
ContextOf ==
    {<<RESPONSE_SUBSCRIBE_EDGE_CONTEXT, "Edge">>,
     <<RESPONSE_SUBSCRIBE_GUI_CONTEXT, "Gui">>,
     <<RESPONSE_SUBSCRIBE_INDUCTIONLOOP_CONTEXT, "InductionLoop">>,
     <<RESPONSE_SUBSCRIBE_JUNCTION_CONTEXT, "Junction">>,
     <<RESPONSE_SUBSCRIBE_LANE_CONTEXT, "Lane">>,
     <<RESPONSE_SUBSCRIBE_LANEAREA_CONTEXT, "LaneArea">>,
     <<RESPONSE_SUBSCRIBE_MULTIENTRYEXIT_CONTEXT, "MultiEntryExit">>,
     <<RESPONSE_SUBSCRIBE_PERSON_CONTEXT, "Person">>,
     <<RESPONSE_SUBSCRIBE_POI_CONTEXT, "Poi">>,
     <<RESPONSE_SUBSCRIBE_POLYGON_CONTEXT, "Polygon">>,
     <<RESPONSE_SUBSCRIBE_REROUTER_CONTEXT, "Rerouter">>,
     <<RESPONSE_SUBSCRIBE_ROUTE_CONTEXT, "Route">>,
     <<RESPONSE_SUBSCRIBE_ROUTEPROBE_CONTEXT, "RouteProbe">>,
     <<RESPONSE_SUBSCRIBE_SIM_CONTEXT, "Simulation">>,
     <<RESPONSE_SUBSCRIBE_TL_CONTEXT, "TrafficLight">>,
     <<RESPONSE_SUBSCRIBE_VEHICLE_CONTEXT, "Vehicle">>,
     <<RESPONSE_SUBSCRIBE_VEHICLETYPE_CONTEXT, "VehicleType">>}

\* the ids pushed: every context and variable response id, and ids around
\* the two ranges
StepIds == keys(ContextOf) \cup keys(domains) \cup {0, 143, 159, 223, 239, 255}

StepItems ==
    {VarItem(id, V0, <<Speed(F27_5)>>) : id \in StepIds}
        \cup {CtxItem(id, V0, CMD_GET_VEHICLE_VARIABLE, 1, <<<<V1, <<Speed(F13)>>>>>>) :
                  id \in StepIds}

InitStep == InitCommon /\ due = << >>

\* simulation_step when the step response carries item
Step_pushed(item) ==
    simulation_step_received(
        Received(send_exact(send_simulation_step(F0)),
                 StepReply(CMD_SIMSTEP, <<item>>, standing)))

Step_simulation_step ==
    /\ nops < MaxSteps
    /\ \E item \in StepItems : Step_pushed(item)

NextStep == Step_simulation_step

SpecStep == InitStep /\ [][NextStep]_vars

\* the caches after a response was stored under table id `id`
RoutedTo(cache, id, obj, results) ==
    [d \in DomainId |-> IF <<id, d>> \in domains THEN insert(cache[d], obj, results)
                        ELSE cache[d]]

NoResults == [d \in DomainId |-> HashMap_new]

\* C27: simulation_step dispatches a response whose id lies in 0xe0..=0xee
\* as a variable subscription and every other id as a context subscription
\* routed by (id + 0x50) mod 256; a response with id
\* RESPONSE_SUBSCRIBE_X_CONTEXT is stored in X's context cache and changes no
\* other cache.
C27_Dispatch ==
    [][(last'.op = "simulation_step" /\ last'.res = "Ok") =>
          /\ (224 <= last'.got.push[1].id /\ last'.got.push[1].id <= 238) =>
                 /\ last'.got.push[1].kind = "var"
                 /\ subscription_results' =
                        RoutedTo(NoResults, last'.got.push[1].id, last'.got.push[1].obj,
                                 VarMap(last'.got.push[1].vars))
                 /\ context_subscription_results' = context_subscription_results
          /\ ~(224 <= last'.got.push[1].id /\ last'.got.push[1].id <= 238) =>
                 /\ last'.got.push[1].kind = "ctx"
                 /\ subscription_results' = NoResults
                 /\ context_subscription_results' =
                        RoutedTo(context_subscription_results,
                                 (last'.got.push[1].id + 80) % 256,
                                 last'.got.push[1].obj, ObjMap(last'.got.push[1].objs))
          /\ \A x \in ContextOf :
                 last'.got.push[1].id = x[1] =>
                     /\ contains_key(context_subscription_results'[x[2]],
                                     last'.got.push[1].obj)
                     /\ \A d \in DomainId \ {x[2]} :
                            context_subscription_results'[d] =
                                context_subscription_results[d]]_vars

\* a rerouter context response stored after a vehicle context response
C27_Witness ==
    /\ last.op = "simulation_step" /\ last.res = "Ok"
    /\ last.got.push[1].id = RESPONSE_SUBSCRIBE_REROUTER_CONTEXT
    /\ prev.op = "simulation_step" /\ prev.res = "Ok"
    /\ prev.got.push[1].id = RESPONSE_SUBSCRIBE_VEHICLE_CONTEXT
    /\ contains_key(context_subscription_results["Rerouter"], V0)
    /\ contains_key(context_subscription_results["Vehicle"], V0)
    /\ context_subscription_results["Lane"] = HashMap_new

(***************************************************************************)
(* The engine on a connection that can fail: a write may fail (link        *)
(* "down"), or the request is written and the simulator sends nothing back *)
(* and closes (link "mute").                                               *)
(***************************************************************************)
MaxEngineOps == 3

Links == {"up", "down", "mute"}

InitEngine == InitCommon /\ due = {VehA, VehBad}

EngineRunning == nops < MaxEngineOps /\ last.res # "Panic"

\* send_exact(..)? that failed: nothing was written
Unsent ==
    [err |-> "Connection", in_msg |-> Storage_new, stream |-> stream,
     unread |-> unread, got |-> NoInfo, standing |-> standing, mine |-> NoInfo,
     sent |-> << >>, pend |-> Len(unread)]

Silence == [bytes |-> << >>, info |-> NoInfo, subs |-> standing]

\* send_exact, then receive_exact on what the connection still holds
Unanswered(frame) == Delivered(frame, Silence, receive_exact(stream), unread)

\* send_exact(msg) and receive_exact over the link
Line(msg, c, link) ==
    IF link = "down" THEN Unsent
    ELSE IF link = "mute" THEN Unanswered(send_exact(msg))
    ELSE Exchange(msg, c)

Engine_set_order ==
    /\ EngineRunning
    /\ IF ~socket THEN NotConnected("set_order")
       ELSE \E c \in OkAnswers, link \in Links :
                Acknowledged("set_order", Line(set_order_msg(1), c, link), CMD_SETORDER)

Engine_get_version ==
    /\ EngineRunning
    /\ IF ~socket THEN NotConnected("get_version")
       ELSE \E c \in OkAnswers, link \in Links :
                get_version_received(Line(get_version_msg, c, link))

Engine_simulation_step ==
    /\ EngineRunning
    /\ IF ~socket THEN NotConnected("simulation_step")
       ELSE \E c \in StepAnswers, link \in Links :
                simulation_step_received(Line(send_simulation_step(F0), c, link))

Engine_close ==
    /\ EngineRunning
    /\ IF ~socket THEN NotConnected("close")
       ELSE \E c \in Answers, link \in Links : close_received(Line(send_close, c, link))

Engine_subscribe_kinematics ==
    /\ EngineRunning
    /\ IF ~socket THEN NotConnected("subscribe_kinematics")
       ELSE \/ Finish("subscribe_kinematics", Unsent, "Connection", << >>)
            \/ \E c \in OkAnswers :
                   Finish("subscribe_kinematics",
                          SendOnly(subscribe_object_variable_msg(
                                       CMD_SUBSCRIBE_VEHICLE_VARIABLE, K0, F0, F3600,
                                       <<VAR_POSITION, VAR_SPEED, VAR_ACCELERATION,
                                         VAR_ANGLE>>), c),
                          "Ok", << >>)

\* process_get over the link
Engine_process_get(out, command, expected_type, c, link) ==
    IF socket
    THEN process_get_received(Line(from_bytes(out.buf), c, link), command, expected_type)
    ELSE Process("Ok", "false", input, NoWire)

Engine_get_speed_built(out, c, link) ==
    get_speed_processed(out, Engine_process_get(out, CMD_GET_VEHICLE_VARIABLE,
                                                <<TYPE_DOUBLE>>, c, link))

Engine_get_speed ==
    /\ EngineRunning
    /\ \E c \in WorldAnswers, link \in Links :
           Engine_get_speed_built(
               create_command(CMD_GET_VEHICLE_VARIABLE, VAR_SPEED, K0, << >>), c, link)

\* process_set over the link
Engine_process_set(out, command, c, link) ==
    IF socket
    THEN process_set_received(Line(from_bytes(out.buf), c, link), command)
    ELSE Process("Ok", "false", input, NoWire)

Engine_set_speed_built(out, c, link) ==
    set_speed_processed(out, Engine_process_set(out, CMD_SET_VEHICLE_VARIABLE, c, link))

Engine_set_speed ==
    /\ EngineRunning
    /\ \E c \in Answers, link \in Links :
           Engine_set_speed_built(
               create_command(CMD_SET_VEHICLE_VARIABLE, VAR_SPEED, K0,
                              <<write_f64(write_u8(Storage_new, TYPE_DOUBLE), F13).buf>>),
               c, link)

NextEngine ==
    \/ Engine_set_order
    \/ Engine_get_version
    \/ Engine_simulation_step
    \/ Engine_close
    \/ Engine_subscribe_kinematics
    \/ Engine_get_speed
    \/ Engine_set_speed

SpecEngine == InitEngine /\ [][NextEngine]_vars

\* C24: closing is terminal and the engine never reconnects: once the socket
\* is absent it stays absent under every later operation, whatever failed
\* before; no operation of the engine creates a socket.
C24_ClosedForGood == [][~socket => ~socket']_vars

\* a close that succeeded, and a simulation_step afterwards
C24_Witness ==
    /\ ~socket
    /\ prev.op = "close" /\ prev.res = "Ok"
    /\ last.op = "simulation_step" /\ last.res = "Connection"

\* the whole frames a byte stream holds
RECURSIVE FrameCount(_)
FrameCount(s) ==
    IF Len(s) < LENGTH_LEN THEN 0
    ELSE IF I32FromBe(SubSeq(s, 1, LENGTH_LEN)) < LENGTH_LEN
            \/ I32FromBe(SubSeq(s, 1, LENGTH_LEN)) > Len(s)
    THEN 0
    ELSE 1 + FrameCount(SubSeq(s, I32FromBe(SubSeq(s, 1, LENGTH_LEN)) + 1, Len(s)))

\* the command whose result status an operation validates
Validates(op) ==
    IF op = "set_order" THEN CMD_SETORDER
    ELSE IF op = "get_version" THEN CMD_GETVERSION
    ELSE IF op = "simulation_step" THEN CMD_SIMSTEP
    ELSE IF op = "close" THEN CMD_CLOSE
    ELSE IF op = "get_speed" THEN CMD_GET_VEHICLE_VARIABLE
    ELSE CMD_SET_VEHICLE_VARIABLE

\* C25: no retry and no suppression.  An operation writes at most one request
\* frame and reads at most one response frame; when its send fails it reads
\* nothing and returns the Connection error; when its receive fails it
\* returns the Connection error; when the response read does not validate
\* (another command's status, or a status other than success) it returns
\* that failure, never Ok.
C25_NoRetryNoSuppression ==
    [][/\ Len(last'.sent) <= 1
       /\ FrameCount(stream) + (IF last'.mine # NoInfo THEN 1 ELSE 0)
              - FrameCount(stream') <= 1
       /\ (socket /\ last'.sent = << >>) =>
              /\ last'.res = "Connection"
              /\ stream' = stream
       /\ (last'.sent # << >> /\ last'.op # "subscribe_kinematics") =>
              /\ (stream = << >> /\ last'.mine = NoInfo) => last'.res = "Connection"
              /\ (last'.got # NoInfo /\ last'.got.cmd # Validates(last'.op)) =>
                     last'.res = "Protocol"
              /\ (last'.got.cmd = Validates(last'.op) /\ last'.got.rt = RTYPE_ERR) =>
                     last'.res = "SimulationError"
              /\ last'.res = "Ok" =>
                     (last'.got.cmd = Validates(last'.op) /\ last'.got.rt = RTYPE_OK)
      ]_vars

\* a request written on a connection the simulator then closed, and a
\* request whose write failed right after
C25_Witness ==
    /\ socket
    /\ prev.op = "simulation_step" /\ prev.sent # << >> /\ prev.res = "Connection"
    /\ last.op = "get_speed" /\ last.sent = << >> /\ last.res = "Connection"

\* the operation that just returned was a simulation_step whose response
\* passed the result-status validation
Validated(l) ==
    /\ l.op = "simulation_step"
    /\ l.got.cmd = CMD_SIMSTEP
    /\ l.got.rt = RTYPE_OK

\* C30: every entry of every variable-subscription cache was decoded from the
\* response of the most recent simulation_step whose result status validated:
\* such a step leaves only entries its response carried, and every other
\* call, a simulation_step that fails at send, at receive or at the status
\* validation included, leaves every cache as it was.
C30_CachesFromLatestValidStep ==
    [][IF Validated(last')
       THEN \A d \in DomainId : \A e \in subscription_results'[d] :
                \E i \in DOMAIN last'.got.push :
                    /\ last'.got.push[i].kind = "var"
                    /\ <<last'.got.push[i].id, d>> \in domains
                    /\ e = <<last'.got.push[i].obj, VarMap(last'.got.push[i].vars)>>
       ELSE subscription_results' = subscription_results]_vars

\* a step that stored an entry, then a step the simulator answered with a
\* failure status: the entry is still there
C30_Witness ==
    /\ prev.op = "simulation_step" /\ prev.res = "Ok"
    /\ last.op = "simulation_step" /\ last.res = "SimulationError"
    /\ subscription_results["Vehicle"] # HashMap_new

\* C29: under a simulator that answers in order, a typed getter that returns
\* Ok decoded its value from the response to its own request: it sent its
\* request when no earlier response was unread, and read a response to a get
\* of its command.
C29_GetterReadsOwnResponse ==
    (last.op = "get_speed" /\ last.res = "Ok") =>
        /\ last.sent # << >>
        /\ last.pend = 0
        /\ last.got = last.mine
        /\ last.got.cmd = CMD_GET_VEHICLE_VARIABLE

\* a cache holds what the response describes, under the response's object
Lodged(item) ==
    \E d \in DomainId :
        IF item.kind = "var"
        THEN <<item.obj, VarMap(item.vars)>> \in subscription_results[d]
        ELSE <<item.obj, ObjMap(item.objs)>> \in context_subscription_results[d]

\* C31: no subscription response is silently lost: when simulation_step
\* returns Ok, each response of the step response is stored in a domain
\* cache; a response whose (offset) id is in no routing-table entry does not
\* let simulation_step return Ok with the response discarded.
C31_NoResponseLost ==
    (last.op = "simulation_step" /\ last.res = "Ok") =>
        \A i \in DOMAIN last.got.push : Lodged(last.got.push[i])

\* C32: close removes the socket if and only if it returns Ok: after a close
\* that failed at send, at receive or at the result status the socket is
\* still present; a close on an absent socket returns a Connection error.
C32_CloseRemovesIffOk ==
    [][last'.op = "close" =>
          IF socket THEN (~socket') <=> (last'.res = "Ok")
          ELSE ~socket' /\ last'.res = "Connection"]_vars

\* a close that failed with the simulator's error status, then a close that
\* succeeded
C32_Witness ==
    /\ prev.op = "close" /\ prev.res = "SimulationError"
    /\ last.op = "close" /\ last.res = "Ok"
    /\ ~socket

(***************************************************************************)
(* The commands the engine builds, each built on arguments of several      *)
(* sizes.                                                                  *)
(***************************************************************************)
MaxCommands == 2

CommandObjIds == {<< >>, V0, OfLen(248), OfLen(249), OfLen(260)}
CommandAdds == {<< >>, << <<TYPE_UBYTE, 3>> >>, << OfLen(253) >>}
ArgLists == {<< >>, <<V0>>, <<V0, OfLen(249)>>, <<OfLen(260), << >>, EAcute>>}
VarLists == {<< >>, <<VAR_SPEED>>,
             <<VAR_POSITION, VAR_SPEED, VAR_ACCELERATION, VAR_ANGLE>>, OfLen(40)}
Orders == {0, 1, 2147483647}

InitCommand ==
    /\ InitCommon
    /\ due = << >>

\* msg is the command built; output is the engine's output buffer afterwards
Command_built(op, arg, msg, out) ==
    /\ nops < MaxCommands
    /\ output' = out
    /\ last' = [op |-> op, res |-> "Ok", arg |-> arg, msg |-> msg.buf]
    /\ prev' = last
    /\ nops' = nops + 1
    /\ UNCHANGED <<socket, input, subscription_results, context_subscription_results,
                   stream, unread, standing, due>>

Command_in_output(op, arg, out) == Command_built(op, arg, out, out)

Command_create_command ==
    \E obj_id \in CommandObjIds, add \in CommandAdds :
        Command_in_output("create_command", <<obj_id, add>>,
            create_command(CMD_SET_VEHICLE_VARIABLE, VAR_SPEED, obj_id, add))

Command_create_filter_command ==
    \E add \in CommandAdds :
        Command_in_output("create_filter_command", <<add>>,
            create_filter_command(CMD_ADD_SUBSCRIPTION_FILTER, FILTER_TYPE_LANES, add))

Command_set_order ==
    \E order \in Orders :
        Command_built("set_order", <<order>>, set_order_msg(order), output)

Command_get_version == Command_built("get_version", << >>, get_version_msg, output)

Command_simulation_step ==
    \E time \in {F0, F3600} :
        Command_built("simulation_step", <<time>>, send_simulation_step(time), output)

Command_close == Command_built("close", << >>, send_close, output)

Command_load ==
    \E args \in ArgLists : Command_built("load", args, load_msg(args), output)

Command_subscribe_object_variable ==
    \E obj_id \in CommandObjIds, vars_ \in VarLists :
        Command_built("subscribe_object_variable", <<obj_id, vars_>>,
            subscribe_object_variable_msg(CMD_SUBSCRIBE_VEHICLE_VARIABLE, obj_id,
                                          F0, F3600, vars_),
            output)

Command_subscribe_object_context ==
    \E obj_id \in CommandObjIds, vars_ \in VarLists :
        Command_built("subscribe_object_context", <<obj_id, vars_>>,
            subscribe_object_context_msg(CMD_SUBSCRIBE_VEHICLE_CONTEXT, obj_id,
                                         F0, F3600, CMD_GET_VEHICLE_VARIABLE, F100,
                                         vars_),
            output)

NextCommand ==
    \/ Command_create_command
    \/ Command_create_filter_command
    \/ Command_set_order
    \/ Command_get_version
    \/ Command_simulation_step
    \/ Command_close
    \/ Command_load
    \/ Command_subscribe_object_variable
    \/ Command_subscribe_object_context

SpecCommand == InitCommand /\ [][NextCommand]_vars

\* the length a command starts with: its first byte, or when that is 0 the
\* big-endian i32 after it
LengthField(bytes) ==
    IF bytes[1] # 0 THEN bytes[1] ELSE I32FromBe(SubSeq(bytes, 2, 5))

\* C33: the length field at the start of every command the engine builds
\* equals the number of bytes of the command, the length field included.
C33_LengthCountsCommand ==
    last.op # "connect" =>
        /\ Len(last.msg) >= 2
        /\ LengthField(last.msg) = Len(last.msg)

\* a load with two arguments after a context subscription for 40 variables
C33_Witness ==
    /\ last.op = "load"
    /\ Len(last.arg) = 2
    /\ LengthField(last.msg) = 11 + 2 + 249 + 8
    /\ prev.op = "subscribe_object_context"
    /\ Len(prev.arg[2]) = 40

\* the place of the value-type tag in a get response p: the status block,
\* the length field of the get block in either form, the response id, the
\* variable id, the object id and then the tag
TagIndex(p) ==
    (IF p[8 + StatusMsgLen(p)] = 0 THEN 12 + StatusMsgLen(p) ELSE 8 + StatusMsgLen(p))
        + 7 + ObjLen(GetBody(p))

\* C34: when process_get(command, Some(t)) returns Ok(true) the input
\* buffer's cursor is immediately after the value-type tag, with the 1-byte
\* and with the extended length form of the get-response header, so that the
\* next typed read decodes the value returned.
C34_CursorAfterTag ==
    (last.op = "process_get" /\ last.res = "Ok" /\ last.arg[2] # << >>) =>
        /\ input.buf = HeadPayload(last.before)
        /\ input.pos = TagIndex(input.buf)
        /\ input.buf[input.pos] = last.arg[2][1]
        /\ last.arg[2][1] = TYPE_DOUBLE =>
               /\ read_f64(input).err = "Ok"
               /\ read_f64(input).val = F27_5
        /\ last.arg[2][1] = TYPE_INTEGER =>
               /\ read_i32(input).err = "Ok"
               /\ read_i32(input).val = 5

\* a get response in the extended length form, accepted for a double
C34_Witness ==
    /\ last.op = "process_get" /\ last.res = "Ok"
    /\ last.arg[2] = <<TYPE_DOUBLE>>
    /\ input.buf[8 + StatusMsgLen(input.buf)] = 0
    /\ input.pos = 12 + StatusMsgLen(input.buf) + 7 + 2
    /\ read_f64(input).val = F27_5

\* C35: a read that returns an error leaves the read cursor where it was
\* before the call: the fixed-width reads and also read_string,
\* read_string_list and read_f64_list.
C35_FailedReadKeepsCursor ==
    (last.op \in ReadOps /\ last.res = "Protocol") =>
        /\ input.buf = last.before.buf
        /\ input.pos = last.before.pos

(***************************************************************************)
(* simulation_step on step responses whose count fields and length         *)
(* prefixes take any value.                                                *)
(***************************************************************************)
MaxParses == 2

\* one variable response for vehicle v0 with var_count tuples announced
RawVar(var_count, tuples) ==
    SrvCmd(<<RESPONSE_SUBSCRIBE_VEHICLE_VARIABLE>> \o Str(V0) \o <<var_count>> \o tuples)

\* one context response for anchor v0 with num_objects objects announced
RawCtx(num_objects, objects) ==
    SrvCmd(<<RESPONSE_SUBSCRIBE_VEHICLE_CONTEXT>> \o Str(V0)
           \o <<CMD_GET_VEHICLE_VARIABLE, 1>> \o I32ToBe(num_objects) \o objects)

\* step responses after the status: counts of 0, of more than the frame
\* holds, and unknown type tags
SoundReplies ==
    { I32ToBe(0),
      I32ToBe(2147483647),
      I32ToBe(1) \o EncItem(VehA),
      I32ToBe(2) \o EncItem(VehA),
      I32ToBe(1) \o RawVar(255, EncVars(<<Speed(F27_5)>>)),
      I32ToBe(1) \o RawVar(0, << >>),
      I32ToBe(1) \o RawCtx(2147483647, Str(V1) \o EncVars(<<Speed(F13)>>)),
      I32ToBe(1) \o RawCtx(0, << >>),
      I32ToBe(1) \o RawVar(1, <<VAR_SPEED, RTYPE_OK, TYPE_STRINGLIST>>
                               \o I32ToBe(2147483647) \o Str(V0)),
      I32ToBe(1) \o RawVar(1, <<VAR_SPEED, RTYPE_OK, TYPE_DOUBLELIST>>
                               \o I32ToBe(2147483647) \o F13),
      I32ToBe(1) \o RawVar(1, <<VAR_SPEED, RTYPE_OK, TYPE_STRING>> \o I32ToBe(2147483647)),
      I32ToBe(1) \o RawVar(3, <<VAR_SPEED, RTYPE_OK, TYPE_COMPOUND,
                                VAR_ANGLE, RTYPE_OK, TYPE_POLYGON,
                                VAR_POSITION, RTYPE_OK, TYPE_BYTE>>) }

\* step responses with a negative count or length prefix
NegativeReplies ==
    { I32ToBe(0 - 1),
      I32ToBe(1) \o RawCtx(0 - 1, << >>),
      I32ToBe(1) \o RawVar(1, <<VAR_SPEED, RTYPE_OK, TYPE_STRINGLIST>> \o I32ToBe(0 - 1)),
      I32ToBe(1) \o RawVar(1, <<VAR_SPEED, RTYPE_OK, TYPE_DOUBLELIST>> \o I32ToBe(0 - 1)),
      I32ToBe(1) \o RawVar(1, <<VAR_SPEED, RTYPE_OK, TYPE_STRING>> \o I32ToBe(0 - 1)),
      I32ToBe(1) \o SrvCmd(<<RESPONSE_SUBSCRIBE_VEHICLE_VARIABLE>> \o I32ToBe(0 - 1)) }

InitParse == InitCommon /\ due = << >>

\* the step response with body after its status; the body is kept as what
\* the response holds
RawReply(body) ==
    [bytes |-> SrvStatus(CMD_SIMSTEP, RTYPE_OK, << >>) \o body,
     info |-> Info(CMD_SIMSTEP, RTYPE_OK, <<body>>), subs |-> standing]

Parse_received(body) ==
    simulation_step_received(Received(send_exact(send_simulation_step(F0)),
                                      RawReply(body)))

Parse_simulation_step ==
    /\ nops < MaxParses
    /\ last.res # "Panic"
    /\ \E body \in SoundReplies \cup NegativeReplies : Parse_received(body)

NextParse == Parse_simulation_step

SpecParse == InitParse /\ [][NextParse]_vars

\* C36: parsing a step response always terminates with a result: for every
\* value of the count fields simulation_step returns Ok or an error.
C36_ParseReturns ==
    last.op = "simulation_step" =>
        last.res \in {"Ok", "Protocol", "SimulationError", "NotImplemented", "Connection"}

====
